---------------------------- MODULE Spec2Model ----------------------------
(***************************************************************************)
(* Substitute-teacher assignment and reconciliation pipeline.              *)
(*                                                                         *)
(*   scoring engine      src/src/timetable/substitute.py                   *)
(*   daily orchestrator  src/src/utils/daily_leave_processor.py            *)
(*   lifecycle store     src/src/utils/sheet_utils.py                      *)
(*   reconciliation      src/src/utils/report_parser.py                    *)
(*   report handler      src/src/web/webhook.py                            *)
(*                                                                         *)
(* Scores are kept in half points (the code's -0.5 per period is -1 here), *)
(* dates are day numbers (day 0 is a Monday) and timestamps are day        *)
(* numbers too.  Python's None is the string "None".                       *)
(***************************************************************************)
EXTENDS Integers, Sequences, FiniteSets, TLC

VARIABLES
    timetable,      \* the weekly timetable (list of schedule rows)
    requests,       \* Leave_Requests rows (teacher name, periods) of the run's date
    ledger,         \* the Leave_Logs sheet (finalized assignments), append-only
    pending,        \* the Pending_Assignments sheet, data rows in sheet order
    now,            \* the clock, in days
    nextUid,        \* rows ever appended to Pending_Assignments (row identity)
    run,            \* outcome of the last process_leaves call
    call            \* arguments and result of the last direct engine call

vars == <<timetable, requests, ledger, pending, now, nextUid, run, call>>

None == "None"

---------------------------------------------------------------------------
(* Bounds of the model *)

MaxRows == 4        \* rows of the timetable

---------------------------------------------------------------------------
(* Fixed data of the school *)

Teachers == {"T001", "T002", "T003", "T006"}

day_names == <<"Mon", "Tue", "Wed", "Thu", "Fri", "Sat", "Sun">>

teacher_subjects ==
    [t \in Teachers |->
        CASE t = "T001" -> {"Math"}
          [] t = "T002" -> {"Thai"}
          [] t = "T003" -> {"Math", "Thai"}
          [] OTHER      -> {"Math"}]

teacher_levels ==
    [t \in Teachers |->
        CASE t = "T001" -> {"lower_elementary"}
          [] t = "T002" -> {"middle"}
          [] t = "T003" -> {"lower_elementary", "middle"}
          [] OTHER      -> {"lower_elementary"}]

class_levels == [c \in {"P1", "M1"} |-> IF c = "P1" THEN "lower_elementary" ELSE "middle"]

last_resort_teachers == {"T006", "T010", "T018"}

Row(t, s, d, p, c) ==
    [teacher_id |-> t, subject_id |-> s, day_id |-> d, period_id |-> p, class_id |-> c]

\* The rows a timetable of the model is drawn from, in file order.
PoolRows ==
    << Row("T001", "Math", "Mon", 1, "P1"),
       Row("T002", "Thai", "Mon", 1, "M1"),
       Row("T003", "Math", "Mon", 1, "M1"),
       Row("T006", "Math", "Mon", 1, "P1"),
       Row("T001", "Math", "Mon", 2, "P1"),
       Row("T002", "Thai", "Mon", 2, "M1"),
       Row("T003", "Thai", "Mon", 2, "P1"),
       Row("T006", "Math", "Mon", 2, "P1"),
       Row("T002", "Thai", "Tue", 1, "M1"),
       Row("T003", "Math", "Tue", 1, "M1") >>

RECURSIVE SubSeqOf(_, _, _)
SubSeqOf(s, idx, i) ==
    IF i > Len(s) THEN <<>>
    ELSE IF i \in idx THEN <<s[i]>> \o SubSeqOf(s, idx, i + 1)
    ELSE SubSeqOf(s, idx, i + 1)

Timetables ==
    { SubSeqOf(PoolRows, idx, 1) :
        idx \in { S \in SUBSET (1..Len(PoolRows)) : Cardinality(S) <= MaxRows } }

Range(s) == { s[i] : i \in 1..Len(s) }

RECURSIVE Count(_, _)
\* sum(1 for row in rows if P(row)), rows given as the sequence of truth values
Count(s, i) == IF i > Len(s) THEN 0 ELSE (IF s[i] THEN 1 ELSE 0) + Count(s, i + 1)

---------------------------------------------------------------------------
(* Scoring engine: src/src/timetable/substitute.py *)

\* is_available: "False" at the first row of timetables + substitute_logs
\* that has the teacher at (day, period); a log row without the key
\* teacher_id met before that raises KeyError.
RECURSIVE is_available_from(_, _, _, _, _)
is_available_from(rows, i, teacher_id, day_id, period_id) ==
    IF i > Len(rows) THEN "True"
    ELSE IF "teacher_id" \notin DOMAIN rows[i] THEN "KeyError"
    ELSE IF /\ rows[i].teacher_id = teacher_id
            /\ rows[i].day_id = day_id
            /\ rows[i].period_id = period_id THEN "False"
    ELSE is_available_from(rows, i + 1, teacher_id, day_id, period_id)

\* is_available looking at the timetable only
is_available_in_timetable(teacher_id, day_id, period_id, timetables, substitute_logs) ==
    is_available_from(timetables, 1, teacher_id, day_id, period_id)

is_available(teacher_id, day_id, period_id, timetables, substitute_logs) ==
    is_available_from(timetables \o substitute_logs, 1, teacher_id, day_id, period_id)

AbsentScore == -1998     \* -999 points

\* calculate_score below its first test: the score of a teacher who is not
\* absent, in half points
score_of_present(teacher_id, subject_id, day_id, class_id, timetables, substitute_logs, absent_teacher_ids, leave_logs) ==
    LET last   == IF teacher_id \in last_resort_teachers THEN -100 ELSE 0
        subj   == IF teacher_id \in DOMAIN teacher_subjects
                     /\ subject_id \in teacher_subjects[teacher_id] THEN 4 ELSE 0
        lvl    == IF /\ class_id \in DOMAIN class_levels
                     /\ teacher_id \in DOMAIN teacher_levels
                     /\ class_levels[class_id] \in teacher_levels[teacher_id]
                  THEN 10 ELSE -4
        daily_load == Count([i \in 1..Len(timetables) |->
                               /\ timetables[i].teacher_id = teacher_id
                               /\ timetables[i].day_id = day_id], 1)
        history_load == Count([i \in 1..Len(substitute_logs) |->
                               substitute_logs[i].teacher_id = teacher_id], 1)
        leave_days_set == { leave_logs[i].day_id :
                              i \in { j \in 1..Len(leave_logs) :
                                        leave_logs[j].teacher_id = teacher_id } }
        total_term_load == Count([i \in 1..Len(timetables) |->
                               /\ timetables[i].teacher_id = teacher_id
                               /\ timetables[i].day_id \notin leave_days_set], 1)
    IN  last + subj + lvl - daily_load * 4 - history_load * 2 - total_term_load

\* calculate_score, in half points
calculate_score(teacher_id, subject_id, day_id, class_id, timetables, substitute_logs, absent_teacher_ids, leave_logs) ==
    IF teacher_id \in absent_teacher_ids THEN AbsentScore
    ELSE score_of_present(teacher_id, subject_id, day_id, class_id, timetables,
                          substitute_logs, absent_teacher_ids, leave_logs)

\* The candidates of find_best_substitute_teacher: available, score > -999.
Candidates(subject_id, day_id, period_id, class_id, timetables, substitute_logs, all_teacher_ids, absent_teacher_ids, leave_logs) ==
    { t \in all_teacher_ids :
        /\ is_available(t, day_id, period_id, timetables, substitute_logs) = "True"
        /\ calculate_score(t, subject_id, day_id, class_id, timetables,
                           substitute_logs, absent_teacher_ids, leave_logs)
             > AbsentScore }

\* find_best_substitute_teacher without "if not candidates: return None":
\* max() of no candidates raises ValueError
find_best_without_none(subject_id, day_id, period_id, class_id, timetables, substitute_logs, all_teacher_ids, absent_teacher_ids, leave_logs) ==
    LET candidates == Candidates(subject_id, day_id, period_id, class_id, timetables,
                                 substitute_logs, all_teacher_ids, absent_teacher_ids,
                                 leave_logs)
    IN  IF candidates = {} THEN {"ValueError"} ELSE candidates

\* find_best_substitute_teacher taking a period below 1 as period 1 instead
\* of raising
find_best_with_period_floor(subject_id, day_id, period_id, class_id, timetables, substitute_logs, all_teacher_ids, absent_teacher_ids, leave_logs) ==
    LET period == IF period_id < 1 THEN 1 ELSE period_id
    IN  IF subject_id = "" \/ day_id = "" \/ class_id = "" THEN {"ValueError"}
        ELSE IF \E t \in all_teacher_ids :
                  is_available(t, day_id, period, timetables, substitute_logs) = "KeyError"
             THEN {"KeyError"}
        ELSE
          LET candidates == Candidates(subject_id, day_id, period, class_id, timetables,
                                       substitute_logs, all_teacher_ids,
                                       absent_teacher_ids, leave_logs)
              score(t) == calculate_score(t, subject_id, day_id, class_id, timetables,
                                          substitute_logs, absent_teacher_ids, leave_logs)
          IN  IF candidates = {} THEN {None}
              ELSE { t \in candidates : \A u \in candidates : score(u) <= score(t) }

\* find_best_substitute_teacher: the set of values one call can return
\* (random.choice among the top candidates), or the exception it raises.
find_best_substitute_teacher(subject_id, day_id, period_id, class_id, timetables, substitute_logs, all_teacher_ids, absent_teacher_ids, leave_logs) ==
    IF subject_id = "" \/ day_id = "" \/ class_id = "" THEN {"ValueError"}
    ELSE IF period_id < 1 THEN {"ValueError"}
    ELSE IF \E t \in all_teacher_ids :
              is_available(t, day_id, period_id, timetables, substitute_logs) = "KeyError"
         THEN {"KeyError"}
    ELSE
      LET candidates == Candidates(subject_id, day_id, period_id, class_id, timetables,
                                   substitute_logs, all_teacher_ids, absent_teacher_ids,
                                   leave_logs)
          score(t) == calculate_score(t, subject_id, day_id, class_id, timetables,
                                      substitute_logs, absent_teacher_ids, leave_logs)
      IN  IF candidates = {} THEN {None}
          ELSE { t \in candidates : \A u \in candidates : score(u) <= score(t) }

Raised(v) == v \in {"ValueError", "KeyError"}

\* The record assign_substitutes_for_day appends for a timetable row.
NewSubstitute(row, day_id, substitute) ==
    [teacher_id |-> row.teacher_id, subject_id |-> row.subject_id, day_id |-> day_id,
     period_id |-> row.period_id, class_id |-> row.class_id,
     substitute_teacher |-> substitute]

\* assign_substitutes_for_day from timetable row i on: the set of outcomes,
\* each [raised, rows] with rows the list new_substitutes.
RECURSIVE assign_from(_, _, _, _, _, _, _, _)
assign_from(i, new_substitutes, day_id, tt, substitute_logs, all_teacher_ids, absent_teacher_ids, leave_logs) ==
    IF i > Len(tt) THEN {[raised |-> None, rows |-> new_substitutes]}
    ELSE IF tt[i].day_id = day_id /\ tt[i].teacher_id \in absent_teacher_ids THEN
      UNION { IF Raised(s) THEN {[raised |-> s, rows |-> new_substitutes]}
              ELSE assign_from(i + 1,
                               Append(new_substitutes, NewSubstitute(tt[i], day_id, s)),
                               day_id, tt, substitute_logs, all_teacher_ids,
                               absent_teacher_ids, leave_logs) :
              s \in find_best_substitute_teacher(
                      tt[i].subject_id, day_id, tt[i].period_id, tt[i].class_id, tt,
                      substitute_logs \o new_substitutes, all_teacher_ids,
                      absent_teacher_ids, leave_logs) }
    ELSE assign_from(i + 1, new_substitutes, day_id, tt, substitute_logs,
                     all_teacher_ids, absent_teacher_ids, leave_logs)

assign_substitutes_for_day(day_id, tt, substitute_logs, all_teacher_ids, absent_teacher_ids, leave_logs) ==
    assign_from(1, <<>>, day_id, tt, substitute_logs, all_teacher_ids,
                absent_teacher_ids, leave_logs)

---------------------------------------------------------------------------
(* Names: a name is a sequence of characters; "k","r","u" stand for the    *)
(* three characters of the honorific prefix.                               *)

teacher_full_names ==
    [t \in Teachers |->
        CASE t = "T001" -> <<"k", "r", "u", "a", "b">>
          [] t = "T002" -> <<"k", "r", "u", "c", "d">>
          [] t = "T003" -> <<"k", "r", "u", "e", "f">>
          [] OTHER      -> <<"k", "r", "u", "g", "h">>]

\* teacher_name_map: name -> teacher ID
NameKeys == { teacher_full_names[t] : t \in Teachers }
teacher_name_map == [n \in NameKeys |-> CHOOSE t \in Teachers : teacher_full_names[t] = n]

\* dict.get(key)
Get(map, key) == IF key \in DOMAIN map THEN map[key] ELSE None

---------------------------------------------------------------------------
(* Daily orchestrator: src/src/utils/daily_leave_processor.py *)

DayOf(date) == day_names[(date % 7) + 1]

\* load_substitute_logs_from_sheet: the ledger rows up to limit_date, in the
\* shape the function returns (there is no key teacher_id).
RECURSIVE load_substitute_logs_from_sheet(_, _)
load_substitute_logs_from_sheet(rows, limit_date) ==
    IF rows = <<>> THEN <<>>
    ELSE LET r == Head(rows)
             rest == load_substitute_logs_from_sheet(Tail(rows), limit_date)
         IN  IF r.Date > limit_date THEN rest
             ELSE IF r.Absent_Teacher = "" \/ r.Day = "" \/ r.Period = 0 THEN rest
             ELSE <<[absent_teacher_id |-> r.Absent_Teacher,
                     substitute_teacher_id |->
                        IF r.Substitute_Teacher \in {"", "Not Found", "None", "N/A", "-"}
                        THEN None ELSE r.Substitute_Teacher,
                     subject_id |-> r.Subject, class_id |-> r.Class_ID,
                     day_id |-> r.Day, period_id |-> r.Period]>> \o rest

\* next(entry for entry in timetable if teacher, day and period match), as a
\* list: <<entry>>, or <<>> for None
RECURSIVE FirstEntry(_, _, _, _, _)
FirstEntry(tt, i, teacher_id, day_id, period) ==
    IF i > Len(tt) THEN <<>>
    ELSE IF /\ tt[i].teacher_id = teacher_id /\ tt[i].day_id = day_id
            /\ tt[i].period_id = period THEN <<tt[i]>>
    ELSE FirstEntry(tt, i + 1, teacher_id, day_id, period)

\* the inner loop of get_and_enrich_leaves over one request's periods
RECURSIVE EnrichPeriods(_, _, _, _, _)
EnrichPeriods(periods, teacher_id, target_date, day_id, tt) ==
    IF periods = <<>> THEN <<>>
    ELSE LET e == FirstEntry(tt, 1, teacher_id, day_id, Head(periods))
             rest == EnrichPeriods(Tail(periods), teacher_id, target_date, day_id, tt)
         IN  IF e = <<>> THEN rest
             ELSE <<[date |-> target_date, teacher_id |-> teacher_id, day_id |-> day_id,
                     period_id |-> Head(periods), class_id |-> e[1].class_id,
                     subject_id |-> e[1].subject_id]>> \o rest

\* get_and_enrich_leaves: one leave per requested period that has a class
RECURSIVE get_and_enrich_leaves(_, _, _)
get_and_enrich_leaves(target_date, raw_requests, tt) ==
    IF raw_requests = <<>> THEN <<>>
    ELSE LET request == Head(raw_requests)
             teacher_id == Get(teacher_name_map, request.teacher_name)
             rest == get_and_enrich_leaves(target_date, Tail(raw_requests), tt)
         IN  IF teacher_id = None THEN rest
             ELSE EnrichPeriods(request.periods, teacher_id, target_date,
                                DayOf(target_date), tt) \o rest

\* group_leaves_by_day: there is one day per run, so one list of absent teachers
group_leaves_by_day(leaves) == { leaves[i].teacher_id : i \in 1..Len(leaves) }

---------------------------------------------------------------------------
(* Lifecycle store: src/src/utils/sheet_utils.py *)

\* add_pending_assignment: the row appended to Pending_Assignments.  uid is
\* not a column of the sheet: it names the row, for the properties.
PendingRow(date, absent_teacher, day, period, class_id, subject, substitute_teacher, notes, processed_at, created_at, uid) ==
    [Date |-> date, Absent_Teacher |-> absent_teacher, Day |-> day, Period |-> period,
     Class_ID |-> class_id, Subject |-> subject, Substitute_Teacher |-> substitute_teacher,
     Notes |-> notes, Created_At |-> created_at, Processed_At |-> processed_at, Status |-> "pending",
     uid |-> uid]

add_pending_assignment(pend, date, absent_teacher, day, period, class_id, subject, substitute_teacher, notes, processed_at, created_at, uid) ==
    Append(pend, PendingRow(date, absent_teacher, day, period, class_id, subject,
                            substitute_teacher, notes, processed_at, created_at, uid))

\* the substitute log_assignments_to_pending writes for one assignment:
\* sub_assignment.get('substitute_teacher_id') or 'Not Found'
sub_teacher_of(sub_assignment) ==
    LET got == Get(sub_assignment, "substitute_teacher_id")
    IN  IF got = None THEN "Not Found" ELSE got

\* log_assignments_to_pending: [raised, pending, uid] after the loop over
\* substitutes; a record without the key absent_teacher_id raises KeyError
\* and the rows appended before it stay.
RECURSIVE log_loop(_, _, _, _, _)
log_loop(substitutes, target_date, pend, clock, uid) ==
    IF substitutes = <<>> THEN [raised |-> None, pending |-> pend, uid |-> uid]
    ELSE LET sub_assignment == Head(substitutes)
             sub_teacher == sub_teacher_of(sub_assignment)
         IN  IF "absent_teacher_id" \notin DOMAIN sub_assignment
             THEN [raised |-> "KeyError", pending |-> pend, uid |-> uid]
             ELSE log_loop(Tail(substitutes), target_date,
                           add_pending_assignment(pend, target_date,
                               sub_assignment.absent_teacher_id, sub_assignment.day_id,
                               sub_assignment.period_id, sub_assignment.class_id,
                               sub_assignment.subject_id, sub_teacher,
                               IF "reason" \in DOMAIN sub_assignment
                               THEN sub_assignment.reason ELSE "personal",
                               clock, clock, uid),
                           clock, uid + 1)

log_assignments_to_pending(substitutes, target_date, test_mode, pend, clock, uid) ==
    IF test_mode \/ substitutes = <<>>
    THEN [raised |-> None, pending |-> pend, uid |-> uid]
    ELSE log_loop(substitutes, target_date, pend, clock, uid)

\* generate_report's summary line: the number of assignments whose key
\* substitute_teacher_id holds a value
found_substitutes(substitutes) ==
    Cardinality({ i \in 1..Len(substitutes) :
                    Get(substitutes[i], "substitute_teacher_id") # None })

\* success_rate as the summary prints it with one decimal, in tenths of a
\* percent: found / total * 100, 0 when there is no period
success_rate(found, total_periods) ==
    IF total_periods > 0 THEN (found * 2000 + total_periods) \div (2 * total_periods) ELSE 0

\* generate_report reads sub['absent_teacher_id'] of every assignment it lists.
generate_report_raises(substitutes) ==
    \E i \in 1..Len(substitutes) : "absent_teacher_id" \notin DOMAIN substitutes[i]

---------------------------------------------------------------------------
(* process_leaves: one daily run *)

RunDates == {0, 1}

\* run: status is how process_leaves ended, assigned says that
\* assign_substitutes_for_day returned, and substitutes is the list it returned.
Idle == [status |-> "idle", date |-> 0, leaves |-> <<>>, absent |-> {},
         assigned |-> FALSE, substitutes |-> <<>>]

NoCall == [status |-> "none"]

ProcessLeaves ==
    \E target_date \in RunDates, test_mode \in BOOLEAN :
      /\ LET all_teacher_ids == { timetable[i].teacher_id : i \in 1..Len(timetable) }
             historical == load_substitute_logs_from_sheet(ledger, target_date)
             leaves == get_and_enrich_leaves(target_date, requests, timetable)
             absent == group_leaves_by_day(leaves)
         IN  IF leaves = <<>>
             THEN /\ run' = [status |-> "no_leaves", date |-> target_date,
                             leaves |-> leaves, absent |-> absent,
                             assigned |-> FALSE, substitutes |-> <<>>]
                  /\ UNCHANGED <<pending, nextUid>>
             ELSE \E o \in assign_substitutes_for_day(DayOf(target_date), timetable,
                                 historical, all_teacher_ids, absent, leaves) :
                    LET lg == log_assignments_to_pending(o.rows, target_date, test_mode,
                                                         pending, now, nextUid)
                        status == IF o.raised # None THEN o.raised
                                  ELSE IF lg.raised # None THEN lg.raised
                                  ELSE IF generate_report_raises(o.rows) THEN "KeyError"
                                  ELSE "done"
                    IN  /\ run' = [status |-> status, date |-> target_date,
                                   leaves |-> leaves, absent |-> absent,
                                   assigned |-> (o.raised = None),
                                   substitutes |->
                                       IF o.raised # None THEN <<>> ELSE o.rows]
                        /\ pending' = (IF o.raised # None THEN pending ELSE lg.pending)
                        /\ nextUid' = (IF o.raised # None THEN nextUid ELSE lg.uid)
      /\ call' = NoCall
      /\ UNCHANGED <<timetable, requests, ledger, now>>

---------------------------------------------------------------------------
(* The scoring engine on its own: inputs drawn at the start, then either   *)
(* one daily run or one direct call of find_best_substitute_teacher.       *)

Request(name, periods) == [teacher_name |-> name, periods |-> periods]

RequestPool ==
    { Request(teacher_full_names[t], ps) :
        t \in {"T001", "T002"}, ps \in {<<1>>, <<2>>, <<1, 2>>} }

\* no request, one request, or one request of each of the two teachers
RequestChoices ==
    {<<>>} \cup { <<a>> : a \in RequestPool }
           \cup { <<a, b>> : a \in { r \in RequestPool :
                                         r.teacher_name = teacher_full_names["T001"] },
                              b \in { r \in RequestPool :
                                         r.teacher_name = teacher_full_names["T002"] } }

\* add_absence: the row appended to Leave_Logs.  uid is not a column of the
\* sheet: it names the pending row the ledger row was copied from (-1: none).
LedgerRow(date, absent_teacher, day, period, class_id, subject, substitute_teacher, notes, verified_by, verified_at, uid) ==
    [Date |-> date, Absent_Teacher |-> absent_teacher, Day |-> day, Period |-> period,
     Class_ID |-> class_id, Subject |-> subject, Substitute_Teacher |-> substitute_teacher,
     Notes |-> notes, Verified_By |-> verified_by, Verified_At |-> verified_at, uid |-> uid]

\* Leave_Logs before the run: empty, or one substitution of the week before.
LedgerChoices ==
    { <<>>,
      << LedgerRow(-7, "T002", "Mon", 1, "M1", "Thai", "T003", "personal", "U1", -7, -1) >> }

\* substitute_logs of a direct call: rows that name the substitute in teacher_id
HistoryChoices ==
    { <<>>,
      << Row("T003", "Math", "Mon", 1, "P1") >>,
      << Row("T003", "Math", "Tue", 1, "P1"), Row("T006", "Math", "Mon", 2, "P1") >> }

LeaveLogChoices ==
    { <<>>, << [teacher_id |-> "T003", day_id |-> "Tue"] >> }

InitScore ==
    /\ timetable \in Timetables
    /\ requests \in RequestChoices
    /\ ledger \in LedgerChoices
    /\ pending = <<>>
    /\ now = 0
    /\ nextUid = 0
    /\ run = Idle
    /\ call = NoCall

\* A direct call of find_best_substitute_teacher for the slot of a timetable row.
FindBestCall ==
    /\ run = Idle /\ call = NoCall
    /\ requests = <<>> /\ ledger = <<>>
    /\ \E i \in 1..Len(timetable), absent_teacher_ids \in SUBSET Teachers,
          substitute_logs \in HistoryChoices, leave_logs \in LeaveLogChoices :
         \E result \in find_best_substitute_teacher(
                          timetable[i].subject_id, timetable[i].day_id,
                          timetable[i].period_id, timetable[i].class_id, timetable,
                          substitute_logs, Teachers, absent_teacher_ids, leave_logs) :
            call' = [status |-> "returned",
                     subject_id |-> timetable[i].subject_id,
                     day_id |-> timetable[i].day_id,
                     period_id |-> timetable[i].period_id,
                     class_id |-> timetable[i].class_id,
                     substitute_logs |-> substitute_logs,
                     all_teacher_ids |-> Teachers,
                     absent_teacher_ids |-> absent_teacher_ids,
                     leave_logs |-> leave_logs,
                     result |-> result]
    /\ UNCHANGED <<timetable, requests, ledger, pending, now, nextUid, run>>

DailyRun == run = Idle /\ call = NoCall /\ ProcessLeaves

NextScore == DailyRun \/ FindBestCall

SpecScore == InitScore /\ [][NextScore]_vars

---------------------------------------------------------------------------
(* Properties of the scoring engine (checked under SpecScore) *)

\* the history a run's i-th record was chosen against: the ledger's rows and
\* the records already appended in the run
HistoryBefore(i) ==
    load_substitute_logs_from_sheet(ledger, run.date) \o SubSeq(run.substitutes, 1, i - 1)

\* teacher t occupies (day, period) in rows
Occupies(rows, t, day_id, period_id) ==
    \E r \in Range(rows) :
       /\ "teacher_id" \in DOMAIN r /\ r.teacher_id = t
       /\ r.day_id = day_id /\ r.period_id = period_id

\* C1: in the list one assign_substitutes_for_day call returns, no teacher is
\* the substitute of two records with the same (day, period).
C1_NoDoubleBooking ==
    run.assigned =>
      \A i, j \in 1..Len(run.substitutes) :
         /\ i # j
         /\ run.substitutes[i].day_id = run.substitutes[j].day_id
         /\ run.substitutes[i].period_id = run.substitutes[j].period_id
         /\ run.substitutes[i].substitute_teacher # None
         => run.substitutes[i].substitute_teacher # run.substitutes[j].substitute_teacher

\* C2: the substitute a call of find_best_substitute_teacher returns, and the
\* substitute of every record of a daily run, is not an absent teacher.
C2_AbsentNeverSelected ==
    /\ call.status = "returned" => call.result \notin call.absent_teacher_ids
    /\ run.assigned =>
         \A i \in 1..Len(run.substitutes) :
            run.substitutes[i].substitute_teacher \notin run.absent

\* a call returned a substitute although an absent teacher was free at the slot
C2_Witness ==
    /\ call.status = "returned"
    /\ call.result \in Teachers
    /\ \E a \in call.absent_teacher_ids :
         ~Occupies(timetable \o call.substitute_logs, a, call.day_id, call.period_id)

\* C4: the number of records assign_substitutes_for_day returns for a daily
\* run equals the number of the day's absence periods (the enriched leaves).
C4_OneRecordPerAbsencePeriod ==
    run.assigned => Len(run.substitutes) = Len(run.leaves)

EngineFound ==
    Cardinality({ i \in 1..Len(run.substitutes) :
                    run.substitutes[i].substitute_teacher # None })

\* C20: a daily run whose engine returned produces its report; the summary's
\* found count is the number of periods with a substitute from the engine and
\* its percentage is that count over the number of absence periods; and the
\* substitute written to a period's pending record is the engine's choice.
C20_SummaryAndPendingFollowEngine ==
    run.assigned /\ run.substitutes # <<>> =>
      /\ run.status = "done"
      /\ found_substitutes(run.substitutes) = EngineFound
      /\ success_rate(found_substitutes(run.substitutes), Len(run.leaves))
           = success_rate(EngineFound, Len(run.leaves))
      /\ \A i \in 1..Len(run.substitutes) :
           run.substitutes[i].substitute_teacher # None
             => sub_teacher_of(run.substitutes[i]) = run.substitutes[i].substitute_teacher

\* the number of records before record i of the run that name t as substitute
ChosenBefore(t, i) ==
    Cardinality({ j \in 1..(i - 1) : run.substitutes[j].substitute_teacher = t })

\* the score of teacher t for the period of record i of the run, computed on
\* the given history
ScoreOn(t, i, history) ==
    calculate_score(t, run.substitutes[i].subject_id, run.substitutes[i].day_id,
                    run.substitutes[i].class_id, timetable, history, run.absent, run.leaves)

\* C23: in a daily run that starts from an empty history, the score of a
\* present teacher for an absence period, computed on the history the run
\* has accumulated by then, is one point (two half points) lower for every
\* earlier period of the run in which that teacher was chosen as substitute.
C23_ChosenSubstituteScoresLower ==
    run.assigned /\ ledger = <<>> =>
      \A i \in 1..Len(run.substitutes), t \in Teachers \ run.absent :
         ScoreOn(t, i, HistoryBefore(i)) = ScoreOn(t, i, <<>>) - 2 * ChosenBefore(t, i)

\* the score the call's inputs give teacher t, in half points: -50 if
\* last-resort, +2 if qualified for the subject, +5 if the class level is
\* among the teacher's levels, else -2, -2 per timetable period on the day,
\* -1 per history entry, -0.5 per timetable period on a day without leave
PointsOf(t) ==
    (IF t \in {"T006", "T010", "T018"} THEN -100 ELSE 0)
    + (IF call.subject_id \in teacher_subjects[t] THEN 4 ELSE 0)
    + (IF class_levels[call.class_id] \in teacher_levels[t] THEN 10 ELSE -4)
    - 4 * Cardinality({ i \in 1..Len(timetable) :
                          timetable[i].teacher_id = t /\ timetable[i].day_id = call.day_id })
    - 2 * Cardinality({ i \in 1..Len(call.substitute_logs) :
                          call.substitute_logs[i].teacher_id = t })
    - Cardinality({ i \in 1..Len(timetable) :
                      /\ timetable[i].teacher_id = t
                      /\ ~\E l \in Range(call.leave_logs) :
                            l.teacher_id = t /\ l.day_id = timetable[i].day_id })

\* the teachers of the call who are free at the slot and not absent
FreeAndPresent ==
    { t \in call.all_teacher_ids :
        /\ t \notin call.absent_teacher_ids
        /\ ~Occupies(timetable \o call.substitute_logs, t, call.day_id, call.period_id) }

---------------------------------------------------------------------------
(* The engine called for a day on which one teacher carries a heavy load,  *)
(* as in tests/test_workload_limit.py                                      *)

MaxLoad == 4        \* timetable periods of the loaded teacher on the day

\* the first k periods of Monday, all taught by T003
LoadRows(k) == [p \in 1..k |-> Row("T003", "Math", "Mon", p, "P1")]

\* the loaded teacher's periods, with or without two periods of a colleague,
\* and the period of the absent teacher
LoadTimetables ==
    { LoadRows(k) \o others \o << Row("T002", "Thai", "Mon", 6, "M1") >> :
        k \in 0..MaxLoad,
        others \in { <<>>, << Row("T001", "Math", "Mon", 1, "P1"),
                              Row("T001", "Math", "Mon", 2, "P1") >> } }

InitLoad ==
    /\ timetable \in LoadTimetables
    /\ requests = <<>>
    /\ ledger = <<>>
    /\ pending = <<>>
    /\ now = 0
    /\ nextUid = 0
    /\ run = Idle
    /\ call = NoCall

NextLoad == FindBestCall

SpecLoad == InitLoad /\ [][NextLoad]_vars

\* C15: the teacher find_best_substitute_teacher returns has fewer than 4
\* timetable periods on the requested day.
C15_NeverFourPeriods ==
    call.status = "returned" /\ call.result \in Teachers =>
       Cardinality({ i \in 1..Len(timetable) :
                       /\ timetable[i].teacher_id = call.result
                       /\ timetable[i].day_id = call.day_id }) < 4

---------------------------------------------------------------------------
(* The engine called with arguments a caller may get wrong: an empty       *)
(* subject, day or class, a period below 1, and a history in the shape     *)
(* load_substitute_logs_from_sheet returns.                                *)

ValidateSubjects == {"", "Math"}
ValidateDays == {"", "Mon"}
ValidateClasses == {"", "P1"}
ValidatePeriods == {-1, 0, 1}

InitValidate ==
    /\ timetable \in Timetables
    /\ requests = <<>>
    /\ ledger \in LedgerChoices
    /\ pending = <<>>
    /\ now = 0
    /\ nextUid = 0
    /\ run = Idle
    /\ call = NoCall

\* One call of find_best_substitute_teacher; the history is a list of
\* timetable-shaped rows or the rows loaded from Leave_Logs.
ValidateCall ==
    /\ call = NoCall
    /\ \E subject_id \in ValidateSubjects, day_id \in ValidateDays,
          class_id \in ValidateClasses, period_id \in ValidatePeriods,
          absent_teacher_ids \in {{}, {"T001"}},
          substitute_logs \in HistoryChoices \cup {load_substitute_logs_from_sheet(ledger, 0)} :
         \E result \in find_best_substitute_teacher(
                          subject_id, day_id, period_id, class_id, timetable,
                          substitute_logs, Teachers, absent_teacher_ids, <<>>) :
            call' = [status |-> "returned",
                     subject_id |-> subject_id,
                     day_id |-> day_id,
                     period_id |-> period_id,
                     class_id |-> class_id,
                     substitute_logs |-> substitute_logs,
                     all_teacher_ids |-> Teachers,
                     absent_teacher_ids |-> absent_teacher_ids,
                     leave_logs |-> <<>>,
                     result |-> result]
    /\ UNCHANGED <<timetable, requests, ledger, pending, now, nextUid, run>>

NextValidate == ValidateCall

SpecValidate == InitValidate /\ [][NextValidate]_vars

\* the call's arguments fail the validation of find_best_substitute_teacher
Malformed ==
    \/ call.subject_id = "" \/ call.day_id = "" \/ call.class_id = ""
    \/ call.period_id < 1

\* C21: a call with an empty subject_id, day_id or class_id, or a period_id
\* below 1, raises ValueError: it returns no teacher and no None, and it
\* raises ValueError even when scoring the candidates would have raised
\* something else.
C21_MalformedInputRaisesValueError ==
    call.status = "returned" /\ Malformed => call.result = "ValueError"

\* a call with period 0 and a history on which scoring raises KeyError has
\* raised ValueError
C21_Witness ==
    /\ call.status = "returned"
    /\ call.period_id = 0 /\ call.subject_id # "" /\ call.day_id # "" /\ call.class_id # ""
    /\ \E i \in 1..Len(call.substitute_logs) :
         "teacher_id" \notin DOMAIN call.substitute_logs[i]
    /\ call.result = "ValueError"

---------------------------------------------------------------------------
(* Lifecycle store, the operations on existing rows:                       *)
(* src/src/utils/sheet_utils.py                                            *)

PENDING_EXPIRATION_DAYS == 7

\* the composite key of a row of Pending_Assignments
KeyOf(r) == <<r.Date, r.Absent_Teacher, r.Day, r.Period>>

Uids(rows) == { rows[i].uid : i \in 1..Len(rows) }

\* add_absence when append_row succeeds (it returns False, and appends
\* nothing, when the sheet call raises)
add_absence(led, date, absent_teacher, day, period, class_id, subject, substitute_teacher, notes, verified_by, verified_at, uid) ==
    Append(led, LedgerRow(date, absent_teacher, day, period, class_id, subject,
                          substitute_teacher, notes, verified_by, verified_at, uid))

IsPendingOf(r, target_date) == r.Date = target_date /\ r.Status = "pending"

\* the rows of the date, whatever their status
load_rows_of_date(pend, target_date) ==
    SelectSeq(pend, LAMBDA r : r.Date = target_date)

load_pending_assignments(pend, target_date) ==
    SelectSeq(pend, LAMBDA r : IsPendingOf(r, target_date))

\* a deletion that takes every row of the date, whatever its status
delete_rows_of_date(pend, target_date) ==
    SelectSeq(pend, LAMBDA r : r.Date # target_date)

\* delete_pending_assignments: every row of the date with status pending goes
delete_pending_assignments(pend, target_date) ==
    SelectSeq(pend, LAMBDA r : ~IsPendingOf(r, target_date))

\* a sweep that also takes the rows created exactly at the cutoff
expire_up_to_cutoff(pend, clock) ==
    [i \in 1..Len(pend) |->
        IF pend[i].Status = "pending" /\ pend[i].Created_At <= clock - PENDING_EXPIRATION_DAYS
        THEN [pend[i] EXCEPT !.Status = "expired"]
        ELSE pend[i]]

expire_old_pending_assignments(pend, clock) ==
    [i \in 1..Len(pend) |->
        IF pend[i].Status = "pending" /\ pend[i].Created_At < clock - PENDING_EXPIRATION_DAYS
        THEN [pend[i] EXCEPT !.Status = "expired"]
        ELSE pend[i]]

\* the loop of finalize_pending_assignment from assignment i on; ok[i] says
\* whether add_absence succeeds for the i-th assignment
RECURSIVE finalize_loop(_, _, _, _, _, _)
finalize_loop(pending_assignments, i, led, verified_by, verified_at, ok) ==
    IF i > Len(pending_assignments) THEN [ledger |-> led, finalized_count |-> 0]
    ELSE LET a == pending_assignments[i]
             led2 == IF ok[i]
                     THEN add_absence(led, a.Date, a.Absent_Teacher, a.Day, a.Period,
                                      a.Class_ID, a.Subject, a.Substitute_Teacher,
                                      a.Notes, verified_by, verified_at, a.uid)
                     ELSE led
             rest == finalize_loop(pending_assignments, i + 1, led2, verified_by,
                                   verified_at, ok)
         IN  [ledger |-> rest.ledger,
              finalized_count |-> rest.finalized_count + (IF ok[i] THEN 1 ELSE 0)]

\* finalize_pending_assignment: [pending, ledger, result]
finalize_pending_assignment(pend, led, target_date, verified_by, clock, ok) ==
    LET pending_assignments == load_pending_assignments(pend, target_date)
        done == finalize_loop(pending_assignments, 1, led, verified_by, clock, ok)
    IN  IF pending_assignments = <<>>
        THEN [pending |-> pend, ledger |-> led, result |-> 0]
        ELSE [pending |-> IF done.finalized_count > 0
                          THEN delete_pending_assignments(pend, target_date)
                          ELSE pend,
              ledger |-> done.ledger,
              result |-> done.finalized_count]

\* the index of the first data row of the key's absent teacher, whatever its
\* date, day and period, 0 if there is none
RECURSIVE FirstRowOfTeacher(_, _, _)
FirstRowOfTeacher(pend, i, key) ==
    IF i > Len(pend) THEN 0
    ELSE IF pend[i].Absent_Teacher = key[2] THEN i
    ELSE FirstRowOfTeacher(pend, i + 1, key)

\* the index of the first data row with the key, 0 if there is none
RECURSIVE FirstRowWithKey(_, _, _)
FirstRowWithKey(pend, i, key) ==
    IF i > Len(pend) THEN 0
    ELSE IF KeyOf(pend[i]) = key THEN i
    ELSE FirstRowWithKey(pend, i + 1, key)

\* the update written for a change: the cell Substitute_Teacher and status pending
UpdatedRowAsPending(row, new_value) ==
    [row EXCEPT !.Substitute_Teacher = new_value, !.Status = "pending"]

\* the update written for a change: the cell Substitute_Teacher of the row
UpdatedRow(row, new_value) == [row EXCEPT !.Substitute_Teacher = new_value]

ChangeKey(change) == <<change.date, change.absent_teacher, change.day, change.period>>

\* update_pending_assignments from change i on: [pending, count, errors]
RECURSIVE update_loop(_, _, _)
update_loop(pend, changes, i) ==
    IF i > Len(changes) THEN [pending |-> pend, count |-> 0, errors |-> <<>>]
    ELSE LET change == changes[i]
             idx == FirstRowWithKey(pend, 1, ChangeKey(change))
             pend2 == IF idx = 0 THEN pend
                      ELSE [pend EXCEPT ![idx] = UpdatedRow(@, change.new_substitute)]
             rest == update_loop(pend2, changes, i + 1)
         IN  [pending |-> rest.pending,
              count |-> rest.count + (IF idx = 0 THEN 0 ELSE 1),
              errors |-> (IF idx = 0 THEN << <<"Could not find">> \o ChangeKey(change) >>
                          ELSE <<>>) \o rest.errors]

update_pending_assignments(pend, target_date, changes) ==
    LET r == update_loop(pend, changes, 1)
    IN  [pending |-> r.pending, count |-> r.count,
         errors |-> IF r.count = 0 /\ r.errors = <<>>
                    THEN << <<"No updates to apply">> >> ELSE r.errors]

---------------------------------------------------------------------------
(* Reconciliation: src/src/utils/report_parser.py                          *)
(* Confidences and ratios are in hundredths.  A missing name (None or the  *)
(* empty string, both false in a test) is the empty sequence.              *)

NoName == <<>>

AI_MATCH_CONFIDENCE_THRESHOLD == 85

\* str.lower() on the characters of the model
LowerChar(c) == IF c = "A" THEN "a" ELSE IF c = "E" THEN "e" ELSE c

lower(s) == [i \in 1..Len(s) |-> LowerChar(s[i])]

RECURSIVE lstrip(_)
lstrip(s) == IF s # <<>> /\ Head(s) = " " THEN lstrip(Tail(s)) ELSE s

RECURSIVE rstrip(_)
rstrip(s) == IF s # <<>> /\ s[Len(s)] = " " THEN rstrip(SubSeq(s, 1, Len(s) - 1)) ELSE s

strip(s) == rstrip(lstrip(s))

startswith(s, prefix) == Len(s) >= Len(prefix) /\ SubSeq(s, 1, Len(prefix)) = prefix

HonorificPrefix == <<"k", "r", "u">>

normalize_thai_name(name) ==
    LET normalized == strip(name)
    IN  lower(strip(IF startswith(normalized, HonorificPrefix)
                    THEN SubSeq(normalized, 4, Len(normalized))
                    ELSE normalized))

\* length of the common run of a from i and b from j, inside a[..ahi], b[..bhi]
RECURSIVE CommonRun(_, _, _, _, _, _)
CommonRun(a, b, i, j, ahi, bhi) ==
    IF i > ahi \/ j > bhi THEN 0
    ELSE IF a[i] # b[j] THEN 0
    ELSE 1 + CommonRun(a, b, i + 1, j + 1, ahi, bhi)

\* SequenceMatcher.find_longest_match on a[alo..ahi], b[blo..bhi]: the longest
\* block, the earliest in a and then the earliest in b among the longest
find_longest_match(a, b, alo, ahi, blo, bhi) ==
    LET cand == (alo..ahi) \X (blo..bhi)
        size(p) == CommonRun(a, b, p[1], p[2], ahi, bhi)
        better(p, q) == \/ size(p) > size(q)
                        \/ /\ size(p) = size(q)
                           /\ \/ p[1] < q[1]
                              \/ p[1] = q[1] /\ p[2] <= q[2]
    IN  IF cand = {} THEN <<alo, blo, 0>>
        ELSE LET best == CHOOSE p \in cand : \A q \in cand : better(p, q)
             IN  <<best[1], best[2], size(best)>>

\* the number of matched characters of SequenceMatcher.get_matching_blocks
RECURSIVE matching_size(_, _, _, _, _, _)
matching_size(a, b, alo, ahi, blo, bhi) ==
    LET m == find_longest_match(a, b, alo, ahi, blo, bhi)
    IN  IF m[3] = 0 THEN 0
        ELSE m[3] + matching_size(a, b, alo, m[1] - 1, blo, m[2] - 1)
                  + matching_size(a, b, m[1] + m[3], ahi, m[2] + m[3], bhi)

\* fuzzy_match_score: SequenceMatcher(None, lower, lower).ratio() as the
\* fraction <<2 * matches, total length>> (1.0 for two empty strings)
fuzzy_match_score(str1, str2) ==
    LET a == lower(str1)
        b == lower(str2)
    IN  IF Len(a) + Len(b) = 0 THEN <<1, 1>>
        ELSE <<2 * matching_size(a, b, 1, Len(a), 1, Len(b)), Len(a) + Len(b)>>

ScoreGreater(x, y) == x[1] * y[2] > y[1] * x[2]

Hundredths(x) == (x[1] * 100) \div x[2]

\* teacher_name_map.items(), in the order of the file
TeacherOrder == <<"T001", "T002", "T003", "T006">>

teacher_name_items ==
    [i \in 1..Len(TeacherOrder) |->
        [valid_name |-> teacher_full_names[TeacherOrder[i]], teacher_id |-> TeacherOrder[i]]]

MatchResult(id, conf, method) == [id |-> id, conf |-> conf, method |-> method]

\* Tier 2: the first valid name whose normalisation equals the input's
RECURSIVE normalized_tier(_, _)
normalized_tier(normalized_input, i) ==
    IF i > Len(teacher_name_items) THEN None
    ELSE IF normalize_thai_name(teacher_name_items[i].valid_name) = normalized_input
         THEN teacher_name_items[i].teacher_id
    ELSE normalized_tier(normalized_input, i + 1)

\* Tier 3: [best_match, best_score] after the loop from item i on
RECURSIVE fuzzy_tier(_, _, _, _)
fuzzy_tier(thai_name, i, best_match, best_score) ==
    IF i > Len(teacher_name_items) THEN [best_match |-> best_match, best_score |-> best_score]
    ELSE LET score == fuzzy_match_score(thai_name, teacher_name_items[i].valid_name)
         IN  IF ScoreGreater(score, best_score)
             THEN fuzzy_tier(thai_name, i + 1, teacher_name_items[i].teacher_id, score)
             ELSE fuzzy_tier(thai_name, i + 1, best_match, best_score)

\* what ai_fuzzy_match_teacher can return: the service's answer, or
\* (None, 0.0) when the call fails
AiConfidences == {50, 70, 90}

AiAnswers ==
    {[matched_name |-> NoName, confidence |-> 0]} \cup
    { [matched_name |-> teacher_full_names["T006"], confidence |-> c] : c \in AiConfidences }

\* the matcher with a fuzzy tier that takes the best name whatever its ratio
match_without_threshold(thai_name, use_ai, api_key) ==
    LET name == strip(thai_name)
        n == normalized_tier(normalize_thai_name(name), 1)
        f == fuzzy_tier(name, 1, None, <<0, 1>>)
    IN  IF thai_name = NoName \/ name = <<>> THEN {MatchResult(None, 0, "not_found")}
        ELSE IF name \in DOMAIN teacher_name_map
             THEN {MatchResult(teacher_name_map[name], 100, "exact")}
        ELSE IF n # None THEN {MatchResult(n, 95, "normalized")}
        ELSE IF f.best_match # None
             THEN {MatchResult(f.best_match, Hundredths(f.best_score), "fuzzy")}
        ELSE {MatchResult(None, 0, "not_found")}

\* match_teacher_name_to_id: the set of results one call can return
match_teacher_name_to_id(thai_name, use_ai, api_key) ==
    LET name == strip(thai_name)
        n == normalized_tier(normalize_thai_name(name), 1)
        f == fuzzy_tier(name, 1, None, <<0, 1>>)
    IN  IF thai_name = NoName \/ name = <<>> THEN {MatchResult(None, 0, "not_found")}
        ELSE IF name \in DOMAIN teacher_name_map
             THEN {MatchResult(teacher_name_map[name], 100, "exact")}
        ELSE IF n # None THEN {MatchResult(n, 95, "normalized")}
        ELSE IF f.best_score[1] * 100 >= 85 * f.best_score[2]
             THEN {MatchResult(f.best_match, Hundredths(f.best_score), "fuzzy")}
        ELSE IF use_ai /\ api_key # ""
             THEN { IF ans.matched_name # NoName /\ ans.matched_name \in DOMAIN teacher_name_map
                    THEN MatchResult(teacher_name_map[ans.matched_name], ans.confidence,
                                     "ai_fuzzy")
                    ELSE MatchResult(None, 0, "not_found") : ans \in AiAnswers }
        ELSE {MatchResult(None, 0, "not_found")}

\* a line of a report: a day header, a period header, an assignment line
\* (marker: the line ends with the words of ASSIGNMENT_PATTERN's last group;
\* nosub: the substitute part matches NO_SUBSTITUTE_PATTERN) or other text
DayLine(d) ==
    [kind |-> "day", day |-> d, period |-> 0, subject |-> "", class_id |-> "",
     absent |-> NoName, substitute |-> NoName, nosub |-> FALSE, marker |-> FALSE]

PeriodLine(p) ==
    [kind |-> "period", day |-> "", period |-> p, subject |-> "", class_id |-> "",
     absent |-> NoName, substitute |-> NoName, nosub |-> FALSE, marker |-> FALSE]

AssignmentLine(subject, class_id, absent, substitute, nosub, marker) ==
    [kind |-> "assignment", day |-> "", period |-> 0, subject |-> subject,
     class_id |-> class_id, absent |-> absent, substitute |-> substitute,
     nosub |-> nosub, marker |-> marker]

Parsed(subject_thai, class_id, absent_teacher_name, substitute_teacher_name, day, period) ==
    [subject_thai |-> subject_thai, class_id |-> class_id,
     absent_teacher_name |-> absent_teacher_name,
     substitute_teacher_name |-> substitute_teacher_name, day |-> day, period |-> period]

\* parse_edited_assignments from line i on
RECURSIVE parse_from(_, _, _, _)
parse_from(lines, i, current_day, current_period) ==
    IF i > Len(lines) THEN <<>>
    ELSE LET line == lines[i]
         IN  IF line.kind = "day" THEN parse_from(lines, i + 1, line.day, current_period)
             ELSE IF line.kind = "period"
                  THEN parse_from(lines, i + 1, current_day, line.period)
             ELSE IF /\ line.kind = "assignment" /\ line.marker
                     /\ current_day # None /\ current_period # 0
                  THEN << Parsed(line.subject, line.class_id, strip(line.absent),
                                 IF line.nosub THEN NoName ELSE strip(line.substitute),
                                 current_day, current_period) >>
                       \o parse_from(lines, i + 1, current_day, current_period)
             ELSE parse_from(lines, i + 1, current_day, current_period)

parse_edited_assignments(lines) == parse_from(lines, 1, None, 0)

\* pending_lookup: of the rows with one key, the last one stays
pending_lookup(pending_assignments) ==
    [key \in { KeyOf(pending_assignments[i]) : i \in 1..Len(pending_assignments) } |->
        LET last == CHOOSE i \in 1..Len(pending_assignments) :
                       /\ KeyOf(pending_assignments[i]) = key
                       /\ \A j \in 1..Len(pending_assignments) :
                             KeyOf(pending_assignments[j]) = key => j <= i
        IN  pending_assignments[last]]

NoChanges ==
    [updated |-> <<>>, ai_suggestions |-> <<>>, unchanged |-> <<>>, not_found |-> <<>>,
     match_errors |-> <<>>]

\* the loop body that drops an assignment whose key is not in the lookup
classify_found(acc, parsed, absent, sub, target_date, lookup, ai_threshold) ==
    LET key == <<target_date, absent.id, parsed.day, parsed.period>>
        row == IF key \in DOMAIN lookup THEN lookup[key]
               ELSE [Substitute_Teacher |-> sub.id]
    IN  IF absent.id # None /\ key \notin DOMAIN lookup THEN acc
        ELSE IF absent.id = None
        THEN [acc EXCEPT !.match_errors =
                 Append(@, [teacher_name |-> parsed.absent_teacher_name,
                            class_id |-> parsed.class_id, day |-> parsed.day,
                            period |-> parsed.period])]
        ELSE IF sub.id # row.Substitute_Teacher
        THEN [acc EXCEPT !.updated =
                 Append(@, [date |-> target_date, absent_teacher |-> absent.id,
                            day |-> parsed.day, period |-> parsed.period,
                            class_id |-> parsed.class_id, subject |-> parsed.subject_thai,
                            old_substitute |-> row.Substitute_Teacher,
                            new_substitute |-> IF sub.id = None THEN "Not Found" ELSE sub.id,
                            match_confidence |-> sub.conf, match_method |-> sub.method])]
        ELSE [acc EXCEPT !.unchanged =
                 Append(@, [date |-> target_date, absent_teacher |-> absent.id,
                            day |-> parsed.day, period |-> parsed.period,
                            class_id |-> parsed.class_id, subject |-> parsed.subject_thai,
                            substitute |-> sub.id])]

\* the body of the loop of detect_assignment_changes for one parsed
\* assignment, given the results of the two name matches
classify(acc, parsed, absent, sub, target_date, lookup, ai_threshold) ==
    LET key == <<target_date, absent.id, parsed.day, parsed.period>>
        pending_row == lookup[key]
        old_substitute == pending_row.Substitute_Teacher
    IN  IF absent.id = None
        THEN [acc EXCEPT !.match_errors =
                 Append(@, [teacher_name |-> parsed.absent_teacher_name,
                            class_id |-> parsed.class_id, day |-> parsed.day,
                            period |-> parsed.period])]
        ELSE IF key \notin DOMAIN lookup
        THEN [acc EXCEPT !.not_found =
                 Append(@, [parsed |-> parsed, absent_teacher_id |-> absent.id,
                            substitute_teacher_id |-> sub.id])]
        ELSE IF sub.method = "ai_fuzzy" /\ 60 <= sub.conf /\ sub.conf < ai_threshold
        THEN [acc EXCEPT !.ai_suggestions =
                 Append(@, [date |-> target_date, absent_teacher |-> absent.id,
                            day |-> parsed.day, period |-> parsed.period,
                            class_id |-> parsed.class_id, subject |-> parsed.subject_thai,
                            suggested_name |-> parsed.substitute_teacher_name,
                            suggested_id |-> sub.id, confidence |-> sub.conf,
                            old_substitute |-> old_substitute])]
        ELSE IF sub.id # old_substitute
        THEN [acc EXCEPT !.updated =
                 Append(@, [date |-> target_date, absent_teacher |-> absent.id,
                            day |-> parsed.day, period |-> parsed.period,
                            class_id |-> parsed.class_id, subject |-> parsed.subject_thai,
                            old_substitute |-> old_substitute,
                            new_substitute |-> IF sub.id = None THEN "Not Found" ELSE sub.id,
                            match_confidence |-> sub.conf, match_method |-> sub.method])]
        ELSE [acc EXCEPT !.unchanged =
                 Append(@, [date |-> target_date, absent_teacher |-> absent.id,
                            day |-> parsed.day, period |-> parsed.period,
                            class_id |-> parsed.class_id, subject |-> parsed.subject_thai,
                            substitute |-> sub.id])]

\* detect_assignment_changes from parsed assignment i on: the set of results
RECURSIVE detect_from(_, _, _, _, _, _, _, _)
detect_from(i, acc, target_date, parsed_assignments, lookup, use_ai, api_key, ai_threshold) ==
    IF i > Len(parsed_assignments) THEN {acc}
    ELSE LET parsed == parsed_assignments[i]
             absents == match_teacher_name_to_id(parsed.absent_teacher_name, use_ai, api_key)
             subs(absent) ==
                 IF absent.id # None /\ parsed.substitute_teacher_name # NoName
                 THEN match_teacher_name_to_id(parsed.substitute_teacher_name, use_ai, api_key)
                 ELSE {MatchResult(None, 0, "not_found")}
         IN  UNION { UNION { detect_from(i + 1,
                                 classify(acc, parsed, absent, sub, target_date, lookup,
                                          ai_threshold),
                                 target_date, parsed_assignments, lookup, use_ai, api_key,
                                 ai_threshold) :
                             sub \in subs(absent) } :
                     absent \in absents }

detect_assignment_changes(target_date, parsed_assignments, pending_assignments, use_ai, api_key, ai_threshold) ==
    detect_from(1, NoChanges, target_date, parsed_assignments,
                pending_lookup(pending_assignments), use_ai, api_key, ai_threshold)

\* generate_confirmation_message: the sections the message has
generate_confirmation_message(target_date, changes) ==
    [kind |-> "confirmation",
     sections |-> { k \in {"updated", "unchanged", "ai_suggestions", "match_errors",
                           "not_found"} : changes[k] # <<>> }]

---------------------------------------------------------------------------
(* Report handler: src/src/web/webhook.py                                  *)

\* The first line of a message: prefix says it starts with the report
\* prefix, pattern that the rest has the form YYYY-MM-DD, calendar that it
\* is a date of the calendar, date which one.
FirstLine(prefix, pattern, calendar, date) ==
    [prefix |-> prefix, pattern |-> pattern, calendar |-> calendar, date |-> date]

Report(first_line, lines) == [first_line |-> first_line, lines |-> lines]

\* parse_report_date: <<date part>>, or <<>> for None
parse_report_date(text) ==
    IF ~text.first_line.prefix THEN <<>>
    ELSE IF text.first_line.pattern THEN <<text.first_line>>
    ELSE <<>>

\* a message sent to the admin group
Msg(kind) == [kind |-> kind, sections |-> {}]

Outcome(pend, led, messages, work, changes, update_count, finalized_count) ==
    [pending |-> pend, ledger |-> led, messages |-> messages, work |-> work,
     changes |-> changes, update_count |-> update_count,
     finalized_count |-> finalized_count]

\* the handler's last part, writing the suggestions of the matching service
\* into the pending store like the updated entries
finish_report_with_suggestions(changes, warning, target_date, user_id, pend, led, clock, ok) ==
    LET suggested == [i \in 1..Len(changes.ai_suggestions) |->
                        [date |-> changes.ai_suggestions[i].date,
                         absent_teacher |-> changes.ai_suggestions[i].absent_teacher,
                         day |-> changes.ai_suggestions[i].day,
                         period |-> changes.ai_suggestions[i].period,
                         new_substitute |-> changes.ai_suggestions[i].suggested_id]]
        upd == update_pending_assignments(pend, target_date, changes.updated \o suggested)
        fin == finalize_pending_assignment(upd.pending, led, target_date, user_id, clock, ok)
    IN  Outcome(fin.pending, fin.ledger,
                warning \o <<IF fin.result > 0 THEN Msg("finalized") ELSE Msg("no_pending")>>,
                TRUE, changes, upd.count, fin.result)

\* process_substitution_report after detect_assignment_changes returned changes
finish_report(changes, warning, target_date, user_id, pend, led, clock, ok) ==
    LET upd == IF changes.updated # <<>>
               THEN update_pending_assignments(pend, target_date, changes.updated)
               ELSE [pending |-> pend, count |-> 0, errors |-> <<>>]
        confirmation == IF changes.updated # <<>>
                        THEN <<generate_confirmation_message(target_date, changes)>>
                        ELSE <<>>
        fin == finalize_pending_assignment(upd.pending, led, target_date, user_id, clock, ok)
    IN  Outcome(fin.pending, fin.ledger,
                warning \o confirmation
                  \o <<IF fin.result > 0 THEN Msg("finalized") ELSE Msg("no_pending")>>,
                TRUE, changes, upd.count, fin.result)

\* the date test that sends the warning and goes on
stale_warning(report_date, today) ==
    IF today - report_date > PENDING_EXPIRATION_DAYS THEN <<Msg("date_too_old")>> ELSE <<>>

\* process_substitution_report: the set of outcomes of one call
process_substitution_report(text, in_teacher_group, user_id, cfg, pend, led, clock, ok) ==
    LET target == parse_report_date(text)
        report_date == target[1].date
        today == clock
        warning == stale_warning(report_date, today)
        parsed_assignments == parse_edited_assignments(text.lines)
        pending_assignments == load_pending_assignments(pend, report_date)
    IN  IF ~in_teacher_group
        THEN {Outcome(pend, led, <<>>, FALSE, NoChanges, 0, 0)}
        ELSE IF target = <<>>
        THEN {Outcome(pend, led, <<Msg("invalid_format")>>, FALSE, NoChanges, 0, 0)}
        ELSE IF ~target[1].calendar
        THEN {Outcome(pend, led, <<Msg("invalid_date")>>, FALSE, NoChanges, 0, 0)}
        ELSE IF report_date > today
        THEN {Outcome(pend, led, <<Msg("future_date")>>, FALSE, NoChanges, 0, 0)}
        ELSE IF pending_assignments = <<>>
        THEN {Outcome(pend, led, warning \o <<Msg("no_pending")>>, TRUE, NoChanges, 0, 0)}
        ELSE { finish_report(changes, warning, report_date, user_id, pend, led, clock, ok) :
                 changes \in detect_assignment_changes(
                                report_date, parsed_assignments, pending_assignments,
                                cfg.use_ai, cfg.api_key, AI_MATCH_CONFIDENCE_THRESHOLD) }

---------------------------------------------------------------------------
(* The lifecycle of the pending store: rows are created, edited, finalized *)
(* and expired while the clock advances.                                   *)

MaxUid == 2         \* rows ever appended to Pending_Assignments

\* the days at which something happens: the first two days, and the first
\* day on which a row or a report of day 0 is older than the threshold
Clock == {0, 1, PENDING_EXPIRATION_DAYS + 1}

Dates == {0, 1}          \* dates of reports and of direct calls
PendingDates == {0}      \* dates rows are created for

AbsentPool == {"T001", "T002"}

FixedTimetable ==
    << Row("T001", "Math", "Mon", 1, "P1"),
       Row("T002", "Thai", "Mon", 1, "M1"),
       Row("T003", "Math", "Tue", 1, "M1") >>

SubjectOf(t) == IF t = "T001" THEN "Math" ELSE "Thai"
ClassOf(t) == IF t = "T001" THEN "P1" ELSE "M1"

\* the substitute proposed for an absent teacher's period
ProposedFor(t) == IF t = "T001" THEN "T003" ELSE "Not Found"

\* the body of a report: the assignment line of one absent teacher, with the
\* substitute as generated, replaced by another teacher, replaced by a name
\* no teacher has, or replaced by the words for no substitute
ReportBodies ==
    { << DayLine("Mon"), PeriodLine(1),
         AssignmentLine(SubjectOf(t), ClassOf(t), teacher_full_names[t], n, FALSE, TRUE) >> :
        t \in AbsentPool,
        n \in {teacher_full_names["T003"], teacher_full_names["T006"], <<"z", "z">>} } \cup
    { << DayLine("Mon"), PeriodLine(1),
         AssignmentLine(SubjectOf(t), ClassOf(t), teacher_full_names[t], NoName, TRUE, TRUE) >> :
        t \in AbsentPool }

AiOn == [use_ai |-> TRUE, api_key |-> "key"]
AiOff == [use_ai |-> FALSE, api_key |-> ""]

\* a message, the group it was sent in and the configuration it meets
Delivery(text, in_teacher_group, cfg) ==
    [text |-> text, in_teacher_group |-> in_teacher_group, cfg |-> cfg]

Deliveries ==
    { Delivery(Report(FirstLine(TRUE, TRUE, TRUE, 0), b), TRUE, AiOn) : b \in ReportBodies } \cup
    { Delivery(Report(FirstLine(TRUE, TRUE, TRUE, d), <<>>), TRUE, AiOff) : d \in Dates } \cup
    { Delivery(Report(FirstLine(FALSE, TRUE, TRUE, 0), <<>>), TRUE, AiOff),
      Delivery(Report(FirstLine(TRUE, FALSE, FALSE, 0), <<>>), TRUE, AiOff),
      Delivery(Report(FirstLine(TRUE, TRUE, FALSE, 0), <<>>), TRUE, AiOff),
      Delivery(Report(FirstLine(TRUE, TRUE, TRUE, 0), <<>>), FALSE, AiOff) }

Init ==
    /\ timetable = FixedTimetable
    /\ requests = << Request(teacher_full_names["T001"], <<1>>) >>
    /\ ledger = <<>>
    /\ pending = <<>>
    /\ now = 0
    /\ nextUid = 0
    /\ run = Idle
    /\ call = NoCall

\* a direct add_pending_assignment, as scripts/prep_pending_data_live.py does
AddPending ==
    /\ nextUid < MaxUid
    /\ \E date \in PendingDates, t \in AbsentPool :
         /\ pending' = add_pending_assignment(pending, date, t, DayOf(date), 1, ClassOf(t),
                                              SubjectOf(t), ProposedFor(t), "personal",
                                              now, now, nextUid)
         /\ call' = [status |-> "add", key |-> <<date, t, DayOf(date), 1>>]
    /\ nextUid' = nextUid + 1
    /\ run' = Idle
    /\ UNCHANGED <<timetable, requests, ledger, now>>

UpdateSubstitute ==
    /\ \E date \in Dates, t \in AbsentPool, s \in {"T006"} :
         LET change == [date |-> date, absent_teacher |-> t, day |-> DayOf(date),
                        period |-> 1, new_substitute |-> s]
             r == update_pending_assignments(pending, date, <<change>>)
         IN  /\ pending' = r.pending
             /\ call' = [status |-> "update", change |-> change, count |-> r.count,
                         errors |-> r.errors]
    /\ run' = Idle
    /\ UNCHANGED <<timetable, requests, ledger, now, nextUid>>

Finalize ==
    /\ \E target_date \in Dates :
         LET loaded == load_pending_assignments(pending, target_date)
         IN  \E ok \in [1..Len(loaded) -> BOOLEAN] :
               LET r == finalize_pending_assignment(pending, ledger, target_date, "U1",
                                                    now, ok)
               IN  /\ pending' = r.pending
                   /\ ledger' = r.ledger
                   /\ call' = [status |-> "finalize", target_date |-> target_date,
                               result |-> r.result, loaded |-> Uids(loaded),
                               failed |-> { loaded[i].uid : i \in { j \in 1..Len(loaded) : ~ok[j] } }]
    /\ run' = Idle
    /\ UNCHANGED <<timetable, requests, now, nextUid>>

Expire ==
    /\ pending' = expire_old_pending_assignments(pending, now)
    /\ call' = [status |-> "expire",
                result |-> Cardinality({ i \in 1..Len(pending) : pending'[i] # pending[i] })]
    /\ run' = Idle
    /\ UNCHANGED <<timetable, requests, ledger, now, nextUid>>

ProcessReport ==
    /\ \E d \in Deliveries :
        \E ok \in [1..Len(load_pending_assignments(pending, d.text.first_line.date))
                      -> BOOLEAN] :
        LET text == d.text
            in_teacher_group == d.in_teacher_group
            cfg == d.cfg
        IN
         \E o \in process_substitution_report(text, in_teacher_group, "U1", cfg, pending,
                                              ledger, now, ok) :
            /\ pending' = o.pending
            /\ ledger' = o.ledger
            /\ call' = [status |-> "report", in_teacher_group |-> in_teacher_group,
                        dated |-> (parse_report_date(text) # <<>> /\ text.first_line.calendar),
                        date |-> text.first_line.date, today |-> now,
                        messages |-> o.messages, work |-> o.work,
                        changes |-> o.changes,
                        update_count |-> o.update_count,
                        finalized_count |-> o.finalized_count,
                        appended |-> Len(o.ledger) - Len(ledger),
                        deleted |-> Len(pending) - Len(o.pending)]
    /\ run' = Idle
    /\ UNCHANGED <<timetable, requests, now, nextUid>>

Tick ==
    /\ \E t \in Clock : now < t
    /\ now' = CHOOSE t \in Clock : now < t /\ \A u \in Clock : now < u => t <= u
    /\ UNCHANGED <<timetable, requests, ledger, pending, nextUid, run, call>>

Next ==
    \/ AddPending
    \/ ProcessLeaves
    \/ UpdateSubstitute
    \/ Finalize
    \/ Expire
    \/ ProcessReport
    \/ Tick

Spec == Init /\ [][Next]_vars

---------------------------------------------------------------------------
(* Properties of the lifecycle store and of the report handler (checked    *)
(* under Spec)                                                             *)

\* C3: finalize_pending_assignment returns the number of rows it appended to
\* the ledger; the rows it copied are gone from the pending store and every
\* row whose copy failed is still there with status pending.
C3_FailedCopiesStayPending ==
    call.status = "finalize" =>
      /\ call.result = Cardinality(call.loaded \ call.failed)
      /\ \A u \in call.loaded \ call.failed : u \notin Uids(pending)
      /\ \A u \in call.failed :
            \E i \in 1..Len(pending) : pending[i].uid = u /\ pending[i].Status = "pending"

\* no row and no ledger row carries an identity that was not handed out yet,
\* and no row that was copied into the ledger is in the pending store with
\* status pending
C6_Copied ==
    /\ \A i \in 1..Len(pending) : pending[i].uid < nextUid
    /\ \A k \in 1..Len(ledger) : ledger[k].uid < nextUid
    /\ \A i \in 1..Len(pending), k \in 1..Len(ledger) :
          pending[i].uid = ledger[k].uid => pending[i].Status # "pending"

\* a row that has status pending after a step was created by the step or
\* had status pending before it
C6_Step ==
    /\ nextUid' >= nextUid
    /\ \A j \in 1..Len(pending') :
          pending'[j].Status = "pending" =>
             \/ pending'[j].uid >= nextUid
             \/ \E i \in 1..Len(pending) :
                   pending[i].uid = pending'[j].uid /\ pending[i].Status = "pending"

\* C6: over any sequence of create, update, finalize, expire and report
\* operations, a row that has become expired never has status pending again
\* and a row that was copied into the ledger is never again in the pending
\* store with status pending (rows are told apart by their identity).
C6_MonotonicLifecycle == [](C6_Copied) /\ [][C6_Step]_vars

\* an update has just rewritten the substitute of an expired row, while the
\* ledger holds the copy of a row that is gone from the pending store
C6_Witness ==
    /\ call.status = "update" /\ call.count > 0
    /\ \E i \in 1..Len(pending) :
          /\ pending[i].Status = "expired"
          /\ KeyOf(pending[i]) = ChangeKey(call.change)
          /\ pending[i].Substitute_Teacher = call.change.new_substitute
    /\ \E k \in 1..Len(ledger) : ledger[k].uid \notin Uids(pending)

\* C7: the pending store holds at most one row per composite key
\* (date, absent teacher, day, period).
C7_OneRecordPerKey ==
    \A i, j \in 1..Len(pending) : KeyOf(pending[i]) = KeyOf(pending[j]) => i = j

\* C10: a report dated in the future or older than the expiration threshold
\* is rejected before any work: nothing is parsed, updated, finalized or
\* deleted, and one message is sent, a different one in the two cases.
C10_StaleOrFutureRejected ==
    /\ call.status = "report" /\ call.in_teacher_group /\ call.dated
    /\ \/ call.date > call.today
       \/ call.today - call.date > PENDING_EXPIRATION_DAYS
    => /\ ~call.work
       /\ call.update_count = 0 /\ call.appended = 0 /\ call.deleted = 0
       /\ Len(call.messages) = 1
       /\ call.messages[1].kind =
             (IF call.date > call.today THEN "future_date" ELSE "date_too_old")

\* the step is a call of process_substitution_report
ReportStep == call'.status = "report" /\ now' = now /\ nextUid' = nextUid

\* the substitute the row with identity u had before the step
SubstituteBefore(u) ==
    LET i == CHOOSE j \in 1..Len(pending) : pending[j].uid = u
    IN  pending[i].Substitute_Teacher

\* C18: an assignment whose substitute the matching service resolved with a
\* confidence in [0.60, 0.85) is in ai_suggestions and not in updated, and
\* the report's processing leaves the substitute of the pending rows with
\* the assignment's key as it was and copies that substitute, not the
\* suggested one, into the ledger rows it appends for the key.
C18_SuggestionsAreNotApplied ==
    [][ ReportStep =>
          LET ch == call'.changes
          IN  /\ \A u \in Range(ch.updated) :
                    ~(u.match_method = "ai_fuzzy" /\ 60 <= u.match_confidence
                        /\ u.match_confidence < AI_MATCH_CONFIDENCE_THRESHOLD)
              /\ \A e \in Range(ch.ai_suggestions) :
                    /\ 60 <= e.confidence /\ e.confidence < AI_MATCH_CONFIDENCE_THRESHOLD
                    /\ \A u \in Range(ch.updated) : ChangeKey(u) # ChangeKey(e)
                    /\ \A i \in 1..Len(pending') :
                          KeyOf(pending'[i]) = ChangeKey(e) =>
                             /\ pending'[i].uid \in Uids(pending)
                             /\ pending'[i].Substitute_Teacher = SubstituteBefore(pending'[i].uid)
                    /\ \A k \in (Len(ledger) + 1)..Len(ledger') :
                          KeyOf(ledger'[k]) = ChangeKey(e) =>
                             /\ ledger'[k].uid \in Uids(pending)
                             /\ ledger'[k].Substitute_Teacher = SubstituteBefore(ledger'[k].uid) ]_vars

\* a report with a suggestion was processed and the row was finalized with
\* the substitute it had, which is not the suggested teacher
C18_Witness ==
    /\ call.status = "report" /\ Len(call.changes.ai_suggestions) = 1
    /\ call.finalized_count >= 1
    /\ \E k \in 1..Len(ledger) :
          /\ KeyOf(ledger[k]) = ChangeKey(call.changes.ai_suggestions[1])
          /\ ledger[k].Verified_At = call.today
          /\ ledger[k].Substitute_Teacher = call.changes.ai_suggestions[1].old_substitute
          /\ ledger[k].Substitute_Teacher # call.changes.ai_suggestions[1].suggested_id

\* the ledger rows a step appends
Appended == { k \in 1..Len(ledger') : k > Len(ledger) }

\* C24: when a processed report changes the substitute of the record with
\* key K to teacher T, every ledger row that the same processing appends for
\* K carries T as substitute.
C24_EditedSubstituteReachesLedger ==
    [][ReportStep =>
         \A i \in 1..Len(call'.changes.updated) :
            LET u == call'.changes.updated[i]
            IN  u.new_substitute # "Not Found" =>
                  \A k \in Appended :
                     KeyOf(ledger'[k]) = ChangeKey(u)
                       => ledger'[k].Substitute_Teacher = u.new_substitute]_vars

\* C25: after a report was processed, for each of not_found, match_errors
\* and ai_suggestions that has an entry, a message sent to the administrator
\* lists the entries of that kind.
C25_ProblemsAreReported ==
    call.status = "report" =>
      \A k \in {"not_found", "match_errors", "ai_suggestions"} :
         call.changes[k] # <<>> =>
           \E i \in 1..Len(call.messages) :
              call.messages[i].kind = "confirmation" /\ k \in call.messages[i].sections

\* C26: no step changes the substitute of a row whose status is expired.
C26_ExpiredSubstituteIsNeverRewritten ==
    [][\A i \in 1..Len(pending), j \in 1..Len(pending') :
          pending[i].uid = pending'[j].uid /\ pending[i].Status = "expired"
            => pending'[j].Substitute_Teacher = pending[i].Substitute_Teacher]_vars

\* C27: no two rows of the ledger have the same composite key (date,
\* absent teacher, day, period).
C27_OneLedgerRowPerKey ==
    \A i, j \in 1..Len(ledger) : KeyOf(ledger[i]) = KeyOf(ledger[j]) => i = j

\* the rows of the pending store with status expired
ExpiredRows == { i \in 1..Len(pending) : pending[i].Status = "expired" }

\* no expired row has a copy in the ledger
C28_NotCopied ==
    \A i \in ExpiredRows : pending[i].uid \notin Uids(ledger)

\* a step neither removes an expired row nor appends a copy of it
C28_Step ==
    \A i \in ExpiredRows :
       /\ \E j \in 1..Len(pending') :
             pending'[j].uid = pending[i].uid /\ pending'[j].Status = "expired"
       /\ \A k \in Appended : ledger'[k].uid # pending[i].uid

\* C28: over any sequence of operations, a row with status expired stays in
\* the pending store, no operation appends a ledger row copied from it, and
\* the ledger holds no copy of it.
C28_ExpiredStaysAndIsNotCopied == [](C28_NotCopied) /\ [][C28_Step]_vars

\* a finalization has copied a pending row of a date of which another row,
\* expired before, is still in the store
C28_Witness ==
    /\ call.status \in {"finalize", "report"}
    /\ IF call.status = "finalize" THEN call.result > 0 ELSE call.finalized_count > 0
    /\ \E i \in ExpiredRows, k \in 1..Len(ledger) :
          /\ ledger[k].Date = pending[i].Date
          /\ ledger[k].Verified_At >= pending[i].Created_At + PENDING_EXPIRATION_DAYS

---------------------------------------------------------------------------
(* detect_assignment_changes on its own: a pending store and a parsed      *)
(* report are drawn, the changes are detected, written back with           *)
(* update_pending_assignments and detected again.                          *)

MaxSheet == 2       \* rows of the pending store
MaxParsed == 2      \* assignments of a parsed report

DetectDate == 0

SheetRow(t, s, status, uid) ==
    [PendingRow(DetectDate, t, DayOf(DetectDate), 1, ClassOf(t), SubjectOf(t), s,
                "personal", 0, 0, uid) EXCEPT !.Status = status]

SheetRows(uid) ==
    { SheetRow(t, s, status, uid) :
        t \in AbsentPool, s \in {"T003", "Not Found"}, status \in {"pending", "expired"} }

\* the sheets of at most MaxSheet rows, the i-th row carrying identity i - 1
RECURSIVE SheetsOfLen(_)
SheetsOfLen(n) ==
    IF n = 0 THEN { <<>> }
    ELSE { Append(s, r) : s \in SheetsOfLen(n - 1), r \in SheetRows(n - 1) }

SheetChoices == UNION { SheetsOfLen(n) : n \in 0..MaxSheet }

\* names an administrator can leave or type in a report
TypedNames ==
    { teacher_full_names["T003"],            \* as generated
      teacher_full_names["T006"],
      <<"E", "f", " ">>,                      \* no honorific, a capital, a blank
      <<"k", "r", "u", "g", "h", "x">>,       \* one character too many
      <<"z", "z">>,                           \* no teacher is called so
      NoName }                                \* the words for no substitute

ParsedFor(t, n) == Parsed(SubjectOf(t), ClassOf(t), teacher_full_names[t], n, "Mon", 1)

RECURSIVE ParsedOfLen(_)
ParsedOfLen(n) ==
    IF n = 0 THEN { <<>> }
    ELSE IF n = 1
    THEN { <<ParsedFor(t, name)>> : t \in AbsentPool, name \in TypedNames }
         \cup { << Parsed("Math", "P1", <<"z", "z">>, teacher_full_names["T003"], "Mon", 1) >>,
                << Parsed("Math", "P1", teacher_full_names["T001"],
                          teacher_full_names["T003"], "Tue", 1) >> }
    ELSE { Append(s, ParsedFor("T002", name)) :
             s \in { x \in ParsedOfLen(n - 1) :
                       x[n - 1].absent_teacher_name \in {teacher_full_names["T001"], <<"z", "z">>}
                       /\ x[n - 1].day = "Mon" },
             name \in {teacher_full_names["T003"], NoName} }

ParsedChoices == UNION { ParsedOfLen(n) : n \in 1..MaxParsed }

InitDetect ==
    /\ timetable = FixedTimetable
    /\ requests = <<>>
    /\ ledger = <<>>
    /\ pending \in SheetChoices
    /\ now = PENDING_EXPIRATION_DAYS + 1
    /\ nextUid = Len(pending)
    /\ run = Idle
    /\ call = NoCall

DetectChanges ==
    /\ call = NoCall
    /\ \E parsed \in ParsedChoices, cfg \in {AiOn, AiOff} :
         \E changes \in detect_assignment_changes(
                           DetectDate, parsed, load_pending_assignments(pending, DetectDate),
                           cfg.use_ai, cfg.api_key, AI_MATCH_CONFIDENCE_THRESHOLD) :
            call' = [status |-> "detected", target_date |-> DetectDate, parsed |-> parsed,
                     cfg |-> cfg, changes |-> changes, again |-> NoChanges]
    /\ UNCHANGED <<timetable, requests, ledger, pending, now, nextUid, run>>

ApplyUpdates ==
    /\ call.status = "detected"
    /\ pending' = update_pending_assignments(pending, call.target_date,
                                             call.changes.updated).pending
    /\ call' = [call EXCEPT !.status = "applied"]
    /\ UNCHANGED <<timetable, requests, ledger, now, nextUid, run>>

DetectAgain ==
    /\ call.status = "applied"
    /\ \E changes \in detect_assignment_changes(
                         call.target_date, call.parsed,
                         load_pending_assignments(pending, call.target_date),
                         call.cfg.use_ai, call.cfg.api_key, AI_MATCH_CONFIDENCE_THRESHOLD) :
          call' = [call EXCEPT !.status = "redetected", !.again = changes]
    /\ UNCHANGED <<timetable, requests, ledger, pending, now, nextUid, run>>

NextDetect == DetectChanges \/ ApplyUpdates \/ DetectAgain

SpecDetect == InitDetect /\ [][NextDetect]_vars

---------------------------------------------------------------------------
(* Properties of detect_assignment_changes (checked under SpecDetect) *)

KeysOf(entries) == { ChangeKey(entries[i]) : i \in 1..Len(entries) }

\* C8: after the updated entries of a first detection have been written to
\* the pending store, a second detection of the same parsed report has an
\* empty updated list, and every entry that was updated or unchanged the
\* first time is unchanged the second time.
C8_SecondDetectionFindsNothing ==
    call.status = "redetected" =>
      /\ call.again.updated = <<>>
      /\ KeysOf(call.changes.updated) \cup KeysOf(call.changes.unchanged)
            \subseteq KeysOf(call.again.unchanged)

StoredAs(sub_id) == IF sub_id = None THEN "Not Found" ELSE sub_id

\* C9: an entry is in updated only if the substitute resolved from the report
\* differs from the one the pending row holds (which it carries as old), and
\* in unchanged only if it is the same: a line whose substitute was not
\* edited is never reported as updated.
C9_UpdatedIffSubstituteDiffers ==
    call.status = "detected" =>
      LET lookup == pending_lookup(load_pending_assignments(pending, call.target_date))
      IN  /\ \A e \in Range(call.changes.updated) :
                /\ e.old_substitute = lookup[ChangeKey(e)].Substitute_Teacher
                /\ e.new_substitute # e.old_substitute
          /\ \A u \in Range(call.changes.unchanged) :
                StoredAs(u.substitute) = lookup[ChangeKey(u)].Substitute_Teacher

\* the IDs the absent-teacher name of a parsed assignment can resolve to
AbsentIds(p) ==
    { r.id : r \in match_teacher_name_to_id(p.absent_teacher_name, call.cfg.use_ai,
                                            call.cfg.api_key) }

\* the keys of the rows of the date that are pending
PendingKeys ==
    { KeyOf(pending[i]) : i \in { j \in 1..Len(pending) :
                                    /\ pending[j].Date = call.target_date
                                    /\ pending[j].Status = "pending" } }

\* the entries of a list that stand for the key
EntriesFor(entries, key) == { i \in 1..Len(entries) : ChangeKey(entries[i]) = key }

\* C16: detect_assignment_changes puts every parsed assignment into exactly
\* one of its five lists: an assignment whose absent-teacher name resolves
\* to no teacher into match_errors, one whose key is not the key of a
\* pending row of the date into not_found, every other one into updated,
\* ai_suggestions or unchanged, whatever happened to the assignments before
\* it in the report.
C16_EveryAssignmentClassifiedOnce ==
    call.status = "detected" =>
      LET ch == call.changes
          P == call.parsed
      IN  /\ Len(ch.updated) + Len(ch.ai_suggestions) + Len(ch.unchanged)
               + Len(ch.not_found) + Len(ch.match_errors) = Len(P)
          /\ \A i \in 1..Len(P) :
                LET key(t) == <<call.target_date, t, P[i].day, P[i].period>>
                IN  IF AbsentIds(P[i]) = {None}
                    THEN \E e \in Range(ch.match_errors) :
                            /\ e.teacher_name = P[i].absent_teacher_name
                            /\ e.day = P[i].day /\ e.period = P[i].period
                    ELSE \A t \in AbsentIds(P[i]) :
                            AbsentIds(P[i]) = {t} =>
                               IF key(t) \notin PendingKeys
                               THEN \E e \in Range(ch.not_found) :
                                       e.parsed = P[i] /\ e.absent_teacher_id = t
                               ELSE Cardinality(EntriesFor(ch.updated, key(t)))
                                      + Cardinality(EntriesFor(ch.ai_suggestions, key(t)))
                                      + Cardinality(EntriesFor(ch.unchanged, key(t)))
                                    = Cardinality({ j \in 1..Len(P) :
                                         /\ P[j].day = P[i].day /\ P[j].period = P[i].period
                                         /\ AbsentIds(P[j]) = {t} })

\* the first assignment of a report went to match_errors and the second was
\* still classified as updated
C16_Witness ==
    /\ call.status = "detected" /\ Len(call.parsed) = 2
    /\ Len(call.changes.match_errors) = 1
    /\ call.changes.match_errors[1].teacher_name = call.parsed[1].absent_teacher_name
    /\ Len(call.changes.updated) = 1
    /\ call.changes.updated[1].absent_teacher = "T002"

---------------------------------------------------------------------------
(* match_teacher_name_to_id on its own: a name as an administrator may     *)
(* type it and a configuration are drawn and the matcher is called.        *)

InsertAt(s, i, c) == SubSeq(s, 1, i - 1) \o <<c>> \o SubSeq(s, i, Len(s))

DeleteAt(s, i) == SubSeq(s, 1, i - 1) \o SubSeq(s, i + 1, Len(s))

ReplaceAt(s, i, c) == [s EXCEPT ![i] = c]

\* a valid name and what one slip of the keyboard makes of it
SlipsOf(n) ==
    {n} \cup { InsertAt(n, i, "x") : i \in 1..(Len(n) + 1) }
        \cup { DeleteAt(n, i) : i \in 1..Len(n) }
        \cup { ReplaceAt(n, i, "x") : i \in 1..Len(n) }
        \cup { ReplaceAt(n, 4, IF n[4] = "a" THEN "A" ELSE IF n[4] = "e" THEN "E" ELSE n[4]),
               SubSeq(n, 4, Len(n)),
               <<" ">> \o n \o <<" ">>,
               <<" ">> \o SubSeq(n, 4, Len(n)) }

MatchNames ==
    UNION { SlipsOf(teacher_full_names[t]) : t \in Teachers }
      \cup TypedNames \cup { <<" ">>, <<" ", " ">> }

\* use_ai and api_key as the configuration can have them
MatchConfigs ==
    { AiOn, AiOff, [use_ai |-> TRUE, api_key |-> ""], [use_ai |-> FALSE, api_key |-> "key"] }

InitMatch ==
    /\ timetable = FixedTimetable
    /\ requests = <<>>
    /\ ledger = <<>>
    /\ pending = <<>>
    /\ now = 0
    /\ nextUid = 0
    /\ run = Idle
    /\ call = NoCall

MatchName ==
    /\ \E thai_name \in MatchNames, cfg \in MatchConfigs :
         \E result \in match_teacher_name_to_id(thai_name, cfg.use_ai, cfg.api_key) :
            call' = [status |-> "matched", thai_name |-> thai_name, cfg |-> cfg,
                     result |-> result]
    /\ UNCHANGED <<timetable, requests, ledger, pending, now, nextUid, run>>

\* one call of the matcher
MatchCall == call = NoCall /\ MatchName

NextMatch == MatchCall

SpecMatch == InitMatch /\ [][NextMatch]_vars

\* the teachers whose name has the normalisation of the name
SameNormalized(name) ==
    { t \in Teachers : normalize_thai_name(teacher_full_names[t]) = normalize_thai_name(name) }

\* the teachers whose name has the highest similarity ratio with the name
MostSimilar(name) ==
    { t \in Teachers :
        \A u \in Teachers :
           ~ScoreGreater(fuzzy_match_score(name, teacher_full_names[u]),
                         fuzzy_match_score(name, teacher_full_names[t])) }

\* the ratio is at least 0.85
AtLeast85(x) == 100 * x[1] >= 85 * x[2]

\* C17: match_teacher_name_to_id returns the result of the first tier that
\* succeeds: exact with confidence 1.0; normalized with 0.95; fuzzy, for the
\* most similar name if its ratio is at least 0.85, with the ratio as
\* confidence; the matching service, only if it is enabled and has a key,
\* with the confidence the service reported; and (None, 0.0, not_found) when
\* no tier succeeds, the service failing or answering with no name included.
C17_FirstSucceedingTier ==
    call.status = "matched" =>
      LET name == strip(call.thai_name)
          r == call.result
          best == CHOOSE t \in MostSimilar(name) : TRUE
          ratio == fuzzy_match_score(name, teacher_full_names[best])
      IN  IF name = <<>> THEN r = MatchResult(None, 0, "not_found")
          ELSE IF \E t \in Teachers : teacher_full_names[t] = name
          THEN /\ r.method = "exact" /\ r.conf = 100
               /\ teacher_full_names[r.id] = name
          ELSE IF SameNormalized(name) # {}
          THEN r.method = "normalized" /\ r.conf = 95 /\ r.id \in SameNormalized(name)
          ELSE IF AtLeast85(ratio)
          THEN /\ r.method = "fuzzy" /\ r.id \in MostSimilar(name)
               /\ r.conf = Hundredths(ratio)
          ELSE IF call.cfg.use_ai /\ call.cfg.api_key # ""
          THEN \/ r = MatchResult(None, 0, "not_found")
               \/ \E a \in AiAnswers :
                     /\ a.matched_name \in NameKeys
                     /\ r = MatchResult(teacher_name_map[a.matched_name], a.confidence,
                                        "ai_fuzzy")
          ELSE r = MatchResult(None, 0, "not_found")

\* a name with one character replaced, too far from every valid name for the
\* fuzzy tier, came back from the matching service
C17_Witness ==
    /\ call.status = "matched"
    /\ call.thai_name = ReplaceAt(teacher_full_names["T006"], 5, "x")
    /\ call.result.method = "ai_fuzzy" /\ call.result.id = "T006"
    /\ call.result.conf = 70

\* C19: a substitute the matching service proposed with a confidence below
\* 0.60 is not in updated, and after the updated entries have been written
\* no pending row of the entry's key holds the proposed teacher.
C19_LowConfidenceIsNotFound ==
    call.status \in {"detected", "applied", "redetected"} =>
      \A u \in Range(call.changes.updated) :
         u.match_method = "ai_fuzzy" =>
            /\ u.match_confidence >= 60
            /\ call.status = "applied" =>
                 \A i \in 1..Len(pending) :
                    KeyOf(pending[i]) = ChangeKey(u) =>
                       pending[i].Substitute_Teacher # u.new_substitute

---------------------------------------------------------------------------
(* The store operations on their own: a sheet of Pending_Assignments, a    *)
(* ledger and a clock are drawn, and finalize_pending_assignment,          *)
(* expire_old_pending_assignments and update_pending_assignments are       *)
(* called on them.                                                         *)

MaxStoreRows == 2   \* rows of the drawn sheet

\* a row as get_all_records returns it
StoreRow(date, t, status, created_at, uid) ==
    [PendingRow(date, t, DayOf(date), 1, ClassOf(t), SubjectOf(t), ProposedFor(t),
                "personal", created_at, created_at, uid) EXCEPT !.Status = status]

StoreRows(uid) ==
    { StoreRow(date, t, status, created_at, uid) :
        date \in Dates, t \in AbsentPool, status \in {"pending", "expired"},
        created_at \in {0, 1} }

RECURSIVE StoreSheetsOfLen(_)
StoreSheetsOfLen(n) ==
    IF n = 0 THEN { <<>> }
    ELSE { Append(s, r) : s \in StoreSheetsOfLen(n - 1), r \in StoreRows(n - 1) }

StoreSheets == UNION { StoreSheetsOfLen(n) : n \in 0..MaxStoreRows }

\* the ledger before the calls: empty, or one row finalized earlier
StoreLedgers ==
    { <<>>,
      << LedgerRow(0, "T002", "Mon", 1, "M1", "Thai", "T003", "sick", "U0", 0, -1) >> }

InitStore ==
    /\ timetable = FixedTimetable
    /\ requests = <<>>
    /\ ledger \in StoreLedgers
    /\ pending \in StoreSheets
    /\ now \in Clock
    /\ nextUid = Len(pending)
    /\ run = Idle
    /\ call = NoCall

\* update_pending_assignments with the two changes of a report
UpdateSeveral ==
    /\ \E date \in Dates, s \in {"T006", "Not Found"} :
         LET changes == << [date |-> date, absent_teacher |-> "T001", day |-> DayOf(date),
                            period |-> 1, new_substitute |-> s],
                           [date |-> date, absent_teacher |-> "T002", day |-> DayOf(date),
                            period |-> 1, new_substitute |-> "T006"] >>
             r == update_pending_assignments(pending, date, changes)
         IN  /\ pending' = r.pending
             /\ call' = [status |-> "update_several", changes |-> changes,
                         count |-> r.count, errors |-> r.errors]
    /\ run' = Idle
    /\ UNCHANGED <<timetable, requests, ledger, now, nextUid>>

\* one call on the drawn store
FinalizeCall == call = NoCall /\ Finalize
ExpireCall == call = NoCall /\ Expire
UpdateCall == call = NoCall /\ UpdateSubstitute
UpdateSeveralCall == call = NoCall /\ UpdateSeveral

NextStore == FinalizeCall \/ ExpireCall \/ UpdateCall \/ UpdateSeveralCall

SpecStore == InitStore /\ [][NextStore]_vars

\* the step is a call of finalize_pending_assignment
FinalizeStep == call'.status = "finalize" /\ now' = now /\ nextUid' = nextUid

\* C11: when every append to the ledger succeeds, finalize_pending_assignment
\* returns the number of rows that were pending for the date, appends one
\* ledger row per such row, in order, with the row's key, class, subject,
\* substitute and notes, the verifier and the time of the call, leaves no row
\* of the date with status pending, and leaves the rows of other dates and
\* the earlier ledger rows as they were.
C11_FinalizeAllSucceed ==
    [][ FinalizeStep /\ call'.failed = {} =>
          LET d == call'.target_date
              was == SelectSeq(pending, LAMBDA r : r.Date = d /\ r.Status = "pending")
          IN  /\ call'.result = Len(was)
              /\ Len(ledger') = Len(ledger) + Len(was)
              /\ SubSeq(ledger', 1, Len(ledger)) = ledger
              /\ \A i \in 1..Len(was) :
                    LET l == ledger'[Len(ledger) + i]
                    IN  /\ KeyOf(l) = KeyOf(was[i])
                        /\ l.Class_ID = was[i].Class_ID
                        /\ l.Subject = was[i].Subject
                        /\ l.Substitute_Teacher = was[i].Substitute_Teacher
                        /\ l.Notes = was[i].Notes
                        /\ l.Verified_By = "U1"
                        /\ l.Verified_At = now
              /\ \A j \in 1..Len(pending') :
                    ~(pending'[j].Date = d /\ pending'[j].Status = "pending")
              /\ SelectSeq(pending', LAMBDA r : r.Date # d)
                   = SelectSeq(pending, LAMBDA r : r.Date # d) ]_vars

\* a finalization of two pending rows has succeeded, next to a row of
\* another date that is still pending and a ledger row written before
C11_Witness ==
    /\ call.status = "finalize" /\ call.failed = {} /\ call.result >= 1
    /\ Len(ledger) = call.result + 1
    /\ ledger[Len(ledger)].Verified_By = "U1"
    /\ \E i \in 1..Len(pending) :
          pending[i].Date # call.target_date /\ pending[i].Status = "pending"

\* the step is a call of expire_old_pending_assignments
ExpireStep == call'.status = "expire" /\ now' = now /\ nextUid' = nextUid

\* the fields of a row other than its status
BesidesStatus(r) == [r EXCEPT !.Status = "-"]

\* C12: an expiration sweep deletes no row and changes no field but the
\* status; the status of a row changes exactly when it was pending and the
\* row was created strictly before now minus the threshold, and then to
\* expired; the ledger is not modified.
C12_SweepOnlyExpiresOldPending ==
    [][ ExpireStep =>
          /\ ledger' = ledger
          /\ Len(pending') = Len(pending)
          /\ \A i \in 1..Len(pending) :
                /\ BesidesStatus(pending'[i]) = BesidesStatus(pending[i])
                /\ pending'[i].Status =
                     (IF /\ pending[i].Status = "pending"
                         /\ now - pending[i].Created_At > PENDING_EXPIRATION_DAYS
                      THEN "expired" ELSE pending[i].Status) ]_vars

\* a sweep has expired a row and left pending a row created exactly at the
\* cutoff
C12_Witness ==
    /\ call.status = "expire" /\ call.result >= 1
    /\ \E i, j \in 1..Len(pending) :
          /\ pending[i].Status = "expired" /\ now - pending[i].Created_At > PENDING_EXPIRATION_DAYS
          /\ pending[j].Status = "pending"
          /\ now - pending[j].Created_At = PENDING_EXPIRATION_DAYS

\* the step is a call of update_pending_assignments
UpdateStep == call'.status \in {"update", "update_several"} /\ now' = now /\ nextUid' = nextUid

\* the changes the call was given
ChangesOf(c) == IF c.status = "update" THEN << c.change >> ELSE c.changes

\* the fields of a row other than its substitute
BesidesSubstitute(r) == [r EXCEPT !.Substitute_Teacher = "-"]

\* C13: update_pending_assignments deletes and adds no row and changes no
\* field but Substitute_Teacher, and that only in rows whose composite key is
\* the key of one of the changes; the ledger is unchanged.  A change whose
\* key is the key of a row puts its new substitute into the first such row
\* and is counted; a change whose key matches no row changes nothing and is
\* returned as an error message.
C13_UpdateChangesOnlySubstitute ==
    [][ UpdateStep =>
          LET changes == ChangesOf(call')
              Matches(k) == { i \in 1..Len(pending) : KeyOf(pending[i]) = ChangeKey(changes[k]) }
              found == { k \in 1..Len(changes) : Matches(k) # {} }
          IN  /\ ledger' = ledger
              /\ Len(pending') = Len(pending)
              /\ \A i \in 1..Len(pending) :
                    /\ BesidesSubstitute(pending'[i]) = BesidesSubstitute(pending[i])
                    /\ pending'[i] # pending[i] => \E k \in found : i \in Matches(k)
              /\ call'.count = Cardinality(found)
              /\ \A k \in 1..Len(changes) :
                    IF k \in found
                    THEN \E i \in Matches(k) :
                            /\ \A j \in Matches(k) : i <= j
                            /\ pending'[i].Substitute_Teacher = changes[k].new_substitute
                    ELSE \E e \in 1..Len(call'.errors) :
                            call'.errors[e] = <<"Could not find">> \o ChangeKey(changes[k])
              /\ found = {} => pending' = pending ]_vars

\* of two changes one has rewritten the substitute of its row, which is
\* expired, and the other, matching no row, came back as an error
C13_Witness ==
    /\ call.status = "update_several" /\ call.count = 1 /\ Len(call.errors) = 1
    /\ \E i \in 1..Len(pending) :
          /\ KeyOf(pending[i]) = ChangeKey(call.changes[2])
          /\ pending[i].Substitute_Teacher = "T006"
          /\ pending[i].Status = "expired"
          /\ pending[i].Created_At = 1
    /\ \E j \in 1..Len(pending) : pending[j].Date # call.changes[1].date

---------------------------------------------------------------------------
(* The text of the daily report and its way back through the parser:       *)
(* generate_report (src/src/utils/daily_leave_processor.py) writes the     *)
(* lines, parse_edited_assignments (src/src/utils/report_parser.py) reads  *)
(* them.                                                                   *)

MaxReport == 2      \* assignments of a report

\* an assignment with the keys generate_report reads
ReportAssignment(absent, day, period, substitute) ==
    [absent_teacher_id |-> absent, substitute_teacher_id |-> substitute,
     subject_id |-> SubjectOf(absent), class_id |-> ClassOf(absent),
     day_id |-> day, period_id |-> period]

ReportAssignments ==
    { ReportAssignment(a, d, p, t) :
        a \in AbsentPool, d \in {"Mon", "Tue"}, p \in {1, 2}, t \in {None, "T003"} }

ReportChoices ==
    UNION { [1..n -> ReportAssignments] : n \in 1..MaxReport }

\* any other line of the report (title, summary, separators, blank lines)
OtherLine ==
    [kind |-> "other", day |-> "", period |-> 0, subject |-> "", class_id |-> "",
     absent |-> NoName, substitute |-> NoName, nosub |-> FALSE, marker |-> FALSE]

\* teacher_full_names.get(teacher_id, teacher_id)
full_name_of(teacher_id) ==
    IF teacher_id \in DOMAIN teacher_full_names THEN teacher_full_names[teacher_id]
    ELSE <<teacher_id>>

\* the line generate_report writes for one assignment: with a substitute it
\* ends with the substitute's name and the substitute marker, without one
\* it ends with the cross and the words "no substitute found"
assignment_line(sub) ==
    IF sub.substitute_teacher_id # None
    THEN AssignmentLine(sub.subject_id, sub.class_id, full_name_of(sub.absent_teacher_id),
                        full_name_of(sub.substitute_teacher_id), FALSE, TRUE)
    ELSE AssignmentLine(sub.subject_id, sub.class_id, full_name_of(sub.absent_teacher_id),
                        NoName, TRUE, FALSE)

\* the blocks of the periods p..last of one day, in ascending order: a
\* period header and the lines of the period's assignments
RECURSIVE period_blocks(_, _, _)
period_blocks(day_subs, p, last) ==
    IF p > last THEN <<>>
    ELSE LET of_period == SelectSeq(day_subs, LAMBDA x : x.period_id = p)
         IN  (IF of_period = <<>> THEN <<>>
              ELSE <<PeriodLine(p)>> \o [k \in 1..Len(of_period) |-> assignment_line(of_period[k])])
             \o period_blocks(day_subs, p + 1, last)

\* sorted() of the day ids
SortedDays == <<"Fri", "Mon", "Thu", "Tue", "Wed">>

\* the schedule part of the report from day SortedDays[i] on
RECURSIVE day_blocks(_, _, _)
day_blocks(substitutes, absent_by_day, i) ==
    IF i > Len(SortedDays) THEN <<>>
    ELSE LET day_id == SortedDays[i]
             day_subs == SelectSeq(substitutes, LAMBDA x : x.day_id = day_id)
             last == IF day_subs = <<>> THEN 0
                     ELSE CHOOSE m \in { day_subs[k].period_id : k \in 1..Len(day_subs) } :
                            \A k \in 1..Len(day_subs) : day_subs[k].period_id <= m
         IN  (IF day_id \notin absent_by_day THEN <<>>
              ELSE IF day_subs = <<>> THEN <<DayLine(day_id), OtherLine>>
              ELSE <<DayLine(day_id)>> \o period_blocks(day_subs, 1, last))
             \o day_blocks(substitutes, absent_by_day, i + 1)

\* generate_report: the lines of the two messages
generate_report(substitutes, absent_by_day) ==
    <<OtherLine, OtherLine>> \o day_blocks(substitutes, absent_by_day, 1) \o <<OtherLine>>

InitReport ==
    /\ timetable = FixedTimetable
    /\ requests = <<>>
    /\ ledger = <<>>
    /\ pending = <<>>
    /\ now = 0
    /\ nextUid = 0
    /\ run = Idle
    /\ call = NoCall

\* a report is generated for a list of assignments and parsed
GenerateAndParse ==
    /\ call = NoCall
    /\ \E substitutes \in ReportChoices :
         LET lines == generate_report(substitutes,
                                      { substitutes[k].day_id : k \in 1..Len(substitutes) })
         IN  call' = [status |-> "parsed", substitutes |-> substitutes, lines |-> lines,
                      parsed |-> parse_edited_assignments(lines)]
    /\ UNCHANGED <<timetable, requests, ledger, pending, now, nextUid, run>>

NextReport == GenerateAndParse

SpecReport == InitReport /\ [][NextReport]_vars

\* the parsed entry says what the assignment says
ParsedAs(entry, sub) ==
    /\ entry.day = sub.day_id
    /\ entry.period = sub.period_id
    /\ entry.class_id = sub.class_id
    /\ entry.absent_teacher_name = full_name_of(sub.absent_teacher_id)
    /\ entry.substitute_teacher_name =
         (IF sub.substitute_teacher_id = None THEN NoName
          ELSE full_name_of(sub.substitute_teacher_id))

\* C22: parsing the report generated for a list of assignments gives one
\* entry per assignment, with the assignment's day, period, class, absent
\* teacher's name and substitute's name; an assignment without substitute
\* gives an entry without substitute name.
C22_ReportRoundTrips ==
    call.status = "parsed" =>
      /\ Len(call.parsed) = Len(call.substitutes)
      /\ \A k \in 1..Len(call.substitutes) :
           \E j \in 1..Len(call.parsed) : ParsedAs(call.parsed[j], call.substitutes[k])

---------------------------------------------------------------------------
(* finalize_pending_assignment (called by the webhook) and                 *)
(* expire_old_pending_assignments (started by the scheduler through        *)
(* src/src/utils/expire_pending.py) running at the same time on one        *)
(* Pending_Assignments sheet.  Every call to the sheet is one step; what a *)
(* function does between two calls is part of the step of the later call.  *)
(* call holds the position and the local variables of the two functions.   *)

MaxRaceRows == 2    \* rows of the sheet

RaceNow == PENDING_EXPIRATION_DAYS + 1

\* rows that are pending and older than the threshold, pending and new, or
\* expired earlier
RaceRows(uid) ==
    { StoreRow(date, t, "pending", created_at, uid) :
        date \in Dates, t \in AbsentPool, created_at \in {0, RaceNow} } \cup
    { StoreRow(date, t, "expired", 0, uid) : date \in Dates, t \in AbsentPool }

RECURSIVE RaceSheetsOfLen(_)
RaceSheetsOfLen(n) ==
    IF n = 0 THEN { <<>> }
    ELSE { Append(s, r) : s \in RaceSheetsOfLen(n - 1), r \in RaceRows(n - 1) }

RaceSheets == UNION { RaceSheetsOfLen(n) : n \in 1..MaxRaceRows }

\* finalize_pending_assignment before its first call
FinalizerIdle ==
    [pc |-> "idle", target_date |-> 0, pending_assignments |-> <<>>, i |-> 1,
     finalized_count |-> 0, rows_to_delete |-> {}]

\* expire_old_pending_assignments before its first call
SweeperIdle == [pc |-> "idle", all_rows |-> <<>>, idx |-> 1, expired_count |-> 0]

InitRace ==
    /\ timetable = FixedTimetable
    /\ requests = <<>>
    /\ ledger = <<>>
    /\ pending \in RaceSheets
    /\ now = RaceNow
    /\ nextUid = Len(pending)
    /\ run = Idle
    /\ call = [status |-> "race", fin |-> FinalizerIdle, sweep |-> SweeperIdle]

RaceUnchanged == UNCHANGED <<timetable, requests, now, nextUid, run>>

\* finalize_pending_assignment: load_pending_assignments(target_date)
FinalizeRead ==
    /\ call.fin.pc = "idle"
    /\ \E target_date \in Dates :
         LET pending_assignments == load_pending_assignments(pending, target_date)
         IN  call' = [call EXCEPT !.fin =
                        [@ EXCEPT !.pc = IF pending_assignments = <<>> THEN "done" ELSE "copy",
                                  !.target_date = target_date,
                                  !.pending_assignments = pending_assignments]]
    /\ UNCHANGED <<pending, ledger>>
    /\ RaceUnchanged

\* the pc of the finalizer after the copy of assignment i
AfterCopy(fin, count) ==
    IF fin.i < Len(fin.pending_assignments) THEN "copy"
    ELSE IF count > 0 THEN "delete_read" ELSE "done"

\* finalize_pending_assignment: add_absence for the next loaded assignment
FinalizeCopy ==
    /\ call.fin.pc = "copy"
    /\ \E ok \in BOOLEAN :
         LET a == call.fin.pending_assignments[call.fin.i]
             count == call.fin.finalized_count + (IF ok THEN 1 ELSE 0)
         IN  /\ ledger' = (IF ok
                           THEN add_absence(ledger, a.Date, a.Absent_Teacher, a.Day, a.Period,
                                            a.Class_ID, a.Subject, a.Substitute_Teacher,
                                            a.Notes, "U1", now, a.uid)
                           ELSE ledger)
             /\ call' = [call EXCEPT !.fin =
                           [@ EXCEPT !.pc = AfterCopy(call.fin, count),
                                     !.i = @ + 1,
                                     !.finalized_count = count]]
    /\ UNCHANGED pending
    /\ RaceUnchanged

\* delete_pending_assignments: get_all_values and the rows to delete
FinalizeDeleteRead ==
    /\ call.fin.pc = "delete_read"
    /\ LET rows_to_delete == { idx \in 1..Len(pending) :
                                 IsPendingOf(pending[idx], call.fin.target_date) }
       IN  call' = [call EXCEPT !.fin =
                      [@ EXCEPT !.pc = IF rows_to_delete = {} THEN "done" ELSE "delete",
                                !.rows_to_delete = rows_to_delete]]
    /\ UNCHANGED <<pending, ledger>>
    /\ RaceUnchanged

\* delete_pending_assignments: delete_rows for the greatest index left
FinalizeDeleteRow ==
    /\ call.fin.pc = "delete"
    /\ LET row_idx == CHOOSE m \in call.fin.rows_to_delete :
                         \A n \in call.fin.rows_to_delete : n <= m
           rest == call.fin.rows_to_delete \ {row_idx}
       IN  /\ pending' = DeleteAt(pending, row_idx)
           /\ call' = [call EXCEPT !.fin =
                         [@ EXCEPT !.pc = IF rest = {} THEN "done" ELSE "delete",
                                   !.rows_to_delete = rest]]
    /\ UNCHANGED ledger
    /\ RaceUnchanged

\* the first index from idx on of a row of all_rows that is pending and was
\* created before the cutoff, 0 if there is none
RECURSIVE NextToExpire(_, _, _)
NextToExpire(all_rows, idx, cutoff) ==
    IF idx > Len(all_rows) THEN 0
    ELSE IF all_rows[idx].Status = "pending" /\ all_rows[idx].Created_At < cutoff THEN idx
    ELSE NextToExpire(all_rows, idx + 1, cutoff)

\* expire_old_pending_assignments: the cutoff and get_all_values
SweepRead ==
    /\ call.sweep.pc = "idle"
    /\ call' = [call EXCEPT !.sweep =
                  [@ EXCEPT !.pc = IF NextToExpire(pending, 1, now - PENDING_EXPIRATION_DAYS) = 0
                                   THEN "done" ELSE "write",
                            !.all_rows = pending]]
    /\ UNCHANGED <<pending, ledger>>
    /\ RaceUnchanged

\* expire_old_pending_assignments: update_cell(idx, Status, "expired") for
\* the next row of all_rows to expire; the cell written is the one of the
\* row that has that index in the sheet now (beyond the last row there is
\* no record to change)
SweepWrite ==
    /\ call.sweep.pc = "write"
    /\ LET cutoff == now - PENDING_EXPIRATION_DAYS
           idx == NextToExpire(call.sweep.all_rows, call.sweep.idx, cutoff)
       IN  /\ pending' = (IF idx <= Len(pending)
                          THEN [pending EXCEPT ![idx].Status = "expired"]
                          ELSE pending)
           /\ call' = [call EXCEPT !.sweep =
                         [@ EXCEPT !.pc = IF NextToExpire(call.sweep.all_rows, idx + 1, cutoff) = 0
                                          THEN "done" ELSE "write",
                                   !.idx = idx + 1,
                                   !.expired_count = @ + 1]]
    /\ UNCHANGED ledger
    /\ RaceUnchanged

NextRace ==
    \/ FinalizeRead
    \/ FinalizeCopy
    \/ FinalizeDeleteRead
    \/ FinalizeDeleteRow
    \/ SweepRead
    \/ SweepWrite

SpecRace == InitRace /\ [][NextRace]_vars

\* C29: whatever the interleaving of a finalization and a sweep, once both
\* have ended no row is in the pending store with status expired while the
\* ledger holds its copy.
C29_FinalizedAndExpiredExclude ==
    call.fin.pc = "done" /\ call.sweep.pc = "done" =>
      \A i \in 1..Len(pending) :
         pending[i].Status = "expired" => pending[i].uid \notin Uids(ledger)

\* C30: whatever the interleaving of a finalization and a sweep, every row
\* with status expired was created before the cutoff.
C30_OnlyOldRowsExpire ==
    \A i \in 1..Len(pending) :
       pending[i].Status = "expired"
         => pending[i].Created_At < now - PENDING_EXPIRATION_DAYS

=============================================================================
